---------------------------- MODULE Spec2Model ----------------------------
(***************************************************************************)
(* Model of ripd/rip_northbound.c: the northbound change handlers of ripd  *)
(* (validate / prepare / apply / abort), the entry bindings kept in the    *)
(* configuration nodes, and the resource handle of "instance create".      *)
(*                                                                         *)
(* The handlers are translated from rip_northbound.c.  What they call into *)
(* (the transaction coordinator of lib/northbound.c, the routing engine of *)
(* ripd.c, the route table of lib/table.c) is not part of the file and is  *)
(* modelled from the interface description; those definitions are marked   *)
(* "engine" or "coordinator" in their comment.                             *)
(***************************************************************************)
EXTENDS Integers, Sequences, FiniteSets, TLC

(***************************************************************************)
(* Bounds of the model.                                                    *)
(***************************************************************************)
MaxBatch == 2      \* changes in one transaction
MaxFd == 1         \* descriptors 0..MaxFd; 0 is open from process start
NPrefix == 2       \* distance-source prefixes 1..NPrefix
NIf == 1           \* interface names 1..NIf
NAcl == 2          \* access-list / route-map names 1..NAcl
NVal == 1          \* scalar values 1..NVal (metric, distance, interval)
NProto == 1        \* redistribution protocols 1..NProto
MaxFinish == 2     \* extra apply_finish invocations in one transaction

NoFd == -1
NULL == 0

(***************************************************************************)
(* enum nb_event and the handlers' return values.                          *)
(***************************************************************************)
NB_EV_VALIDATE == "VALIDATE"
NB_EV_PREPARE == "PREPARE"
NB_EV_ABORT == "ABORT"
NB_EV_APPLY == "APPLY"
Events == {NB_EV_VALIDATE, NB_EV_PREPARE, NB_EV_ABORT, NB_EV_APPLY}

NB_OK == "NB_OK"
NB_ERR_RESOURCE == "NB_ERR_RESOURCE"
ENGINE_ERR == "ENGINE_ERR"       \* the -1 of a routing-engine call
FOREIGN_ERR == "NB_ERR"

RIP_OFFSET_LIST_IN == 0
RIP_OFFSET_LIST_OUT == 1
Directions == {RIP_OFFSET_LIST_IN, RIP_OFFSET_LIST_OUT}

Fds == 0..MaxFd
Prefixes == 1..NPrefix
Ifnames == 1..NIf
Names == 1..NAcl
Values == 1..NVal
Protos == 1..NProto

VARIABLES
  scope,    \* the part of the schema this run's transactions edit
  tree,     \* running configuration: the nodes that exist
  txn,      \* coordinator: phase, batch of changes, position
  res,      \* union nb_resource of each change of the batch
  ret,      \* return value of the last callback
  last,     \* the last callback invoked: name, event, result
  rip,      \* the global instance (struct rip *rip), RipNull when NULL
  fdtab,    \* the process's descriptor table
  rnh,      \* route nodes of rip_distance_table
  rdh,      \* struct rip_distance records
  offh,     \* struct rip_offset_list records
  strh,     \* strdup'ed strings
  entry,    \* entry bindings: list-entry node -> bound object
  eng,      \* routing-engine tables the handlers call into
  memerr,   \* memory errors so far (double free, use after free, ...)
  pre,      \* runtime model when the running transaction began
  slog,     \* what happened to the socket this transaction acquired
  hist,     \* outcome of the transaction, whether an APPLY ran
  reader,   \* the last call of the operational-data consumer and its result
  wpc       \* the statement a handler has reached, for statement-level runs

vars == <<scope, tree, txn, res, ret, last, rip, fdtab, rnh, rdh, offh, strh,
          entry, eng, memerr, pre, slog, hist, reader, wpc>>

(***************************************************************************)
(* Configuration nodes.  A node is a schema path plus its list keys:       *)
(* [k: path, a: first key, b: second key].  A change is the callback the   *)
(* coordinator invokes for it, the node's keys and the desired value.      *)
(***************************************************************************)
Node(k, a, b) == [k |-> k, a |-> a, b |-> b]
NoNode == Node("none", 0, 0)
InstanceNode == Node("instance", 0, 0)

\* The scopes a run may have: the part of the schema its transactions edit.
Scopes == {"inst", "dist", "off", "redist", "timers", "lists", "passive",
           "iface"}
\* Scopes of the runs with a coordinator that delivers ABORT to the change
\* whose PREPARE failed, or apply_finish to subtrees without a change.
AllScopes == Scopes \cup {"abort-any", "finish", "read", "engine", "stmt",
                        "abort-twice"}

\* The callback table frr_ripd_info: callback, operation, schema path, and
\* the keys and values the model draws for it; sc: the scopes it is drawn in.
Row(cb, op, k, A, B, V, sc) ==
  [cb |-> cb, op |-> op, k |-> k, A |-> A, B |-> B, V |-> V, sc |-> sc]

frr_ripd_info == {
  Row("ripd_instance_create", "create", "instance", {0}, {0}, {0}, AllScopes),
  Row("ripd_instance_delete", "delete", "instance", {0}, {0}, {0}, AllScopes),
  Row("ripd_instance_default_metric_modify", "modify", "default-metric",
      {0}, {0}, Values, {"inst", "abort-any", "abort-twice"}),
  Row("ripd_instance_distance_source_create", "create", "source",
      Prefixes, {0}, {0}, {"dist"}),
  Row("ripd_instance_distance_source_delete", "delete", "source",
      Prefixes, {0}, {0}, {"dist"}),
  Row("ripd_instance_distance_source_distance_modify", "modify",
      "source/distance", Prefixes, {0}, Values, {"dist"}),
  Row("ripd_instance_distance_source_access_list_modify", "modify",
      "source/access-list", Prefixes, {0}, Names, {"dist"}),
  Row("ripd_instance_distance_source_access_list_delete", "delete",
      "source/access-list", Prefixes, {0}, {0}, {"dist"}),
  Row("ripd_instance_offset_list_create", "create", "offset-list",
      Ifnames, Directions, {0}, {"off"}),
  Row("ripd_instance_offset_list_delete", "delete", "offset-list",
      Ifnames, Directions, {0}, {"off"}),
  Row("ripd_instance_offset_list_access_list_modify", "modify",
      "offset-list/access-list", Ifnames, Directions, Names, {"off"}),
  Row("ripd_instance_offset_list_metric_modify", "modify",
      "offset-list/metric", Ifnames, Directions, Values, {"off"}),
  Row("ripd_instance_allow_ecmp_modify", "modify", "allow-ecmp",
      {0}, {0}, {0, 1}, {"inst"}),
  Row("ripd_instance_default_information_originate_modify", "modify",
      "default-information-originate", {0}, {0}, {0, 1},
      {"inst", "engine"}),
  Row("ripd_instance_distance_default_modify", "modify", "distance/default",
      {0}, {0}, Values, {"inst"}),
  Row("ripd_instance_version_receive_modify", "modify", "version/receive",
      {0}, {0}, Values, {"inst", "iface"}),
  Row("ripd_instance_version_send_modify", "modify", "version/send",
      {0}, {0}, Values, {"inst", "iface"}),
  Row("ripd_instance_explicit_neighbor_create", "create",
      "explicit-neighbor", Prefixes, {0}, {0}, {"lists", "read"}),
  Row("ripd_instance_explicit_neighbor_delete", "delete",
      "explicit-neighbor", Prefixes, {0}, {0}, {"lists", "read"}),
  Row("ripd_instance_network_create", "create", "network",
      Prefixes, {0}, {0}, {"lists"}),
  Row("ripd_instance_network_delete", "delete", "network",
      Prefixes, {0}, {0}, {"lists"}),
  Row("ripd_instance_interface_create", "create", "interface",
      Ifnames, {0}, {0}, {"lists"}),
  Row("ripd_instance_interface_delete", "delete", "interface",
      Ifnames, {0}, {0}, {"lists"}),
  Row("ripd_instance_static_route_create", "create", "static-route",
      Prefixes, {0}, {0}, {"lists", "read", "engine"}),
  Row("ripd_instance_static_route_delete", "delete", "static-route",
      Prefixes, {0}, {0}, {"lists", "read", "engine"}),
  Row("ripd_instance_passive_default_modify", "modify", "passive-default",
      {0}, {0}, {0, 1}, {"passive"}),
  Row("ripd_instance_passive_interface_create", "create",
      "passive-interface", Ifnames, {0}, {0}, {"passive"}),
  Row("ripd_instance_passive_interface_delete", "delete",
      "passive-interface", Ifnames, {0}, {0}, {"passive"}),
  Row("ripd_instance_non_passive_interface_create", "create",
      "non-passive-interface", Ifnames, {0}, {0}, {"passive", "engine"}),
  Row("ripd_instance_non_passive_interface_delete", "delete",
      "non-passive-interface", Ifnames, {0}, {0}, {"passive", "engine"}),
  Row("ripd_instance_redistribute_create", "create", "redistribute",
      Protos, {0}, {0}, {"redist", "finish", "stmt"}),
  Row("ripd_instance_redistribute_delete", "delete", "redistribute",
      Protos, {0}, {0}, {"redist", "finish"}),
  Row("ripd_instance_redistribute_route_map_modify", "modify",
      "redistribute/route-map", Protos, {0}, Names,
      {"redist", "finish", "stmt"}),
  Row("ripd_instance_redistribute_route_map_delete", "delete",
      "redistribute/route-map", Protos, {0}, {0}, {"redist", "finish"}),
  Row("ripd_instance_redistribute_metric_modify", "modify",
      "redistribute/metric", Protos, {0}, Values,
      {"redist", "finish", "stmt"}),
  Row("ripd_instance_redistribute_metric_delete", "delete",
      "redistribute/metric", Protos, {0}, {0}, {"redist", "finish"}),
  Row("ripd_instance_timers_flush_interval_modify", "modify",
      "timers/flush-interval", {0}, {0}, Values, {"timers"}),
  Row("ripd_instance_timers_holddown_interval_modify", "modify",
      "timers/holddown-interval", {0}, {0}, Values, {"timers"}),
  Row("ripd_instance_timers_update_interval_modify", "modify",
      "timers/update-interval", {0}, {0}, Values, {"timers", "finish"}),
  Row("lib_interface_rip_split_horizon_modify", "modify", "split-horizon",
      Ifnames, {0}, Values, {"iface"}),
  Row("lib_interface_rip_v2_broadcast_modify", "modify", "v2-broadcast",
      Ifnames, {0}, {0, 1}, {"iface"}),
  Row("lib_interface_rip_version_receive_modify", "modify",
      "version-receive", Ifnames, {0}, Values, {"iface"}),
  Row("lib_interface_rip_version_send_modify", "modify", "version-send",
      Ifnames, {0}, Values, {"iface"}),
  Row("lib_interface_rip_authentication_scheme_mode_modify", "modify",
      "authentication-mode", Ifnames, {0}, Values, {"iface"}),
  Row("lib_interface_rip_authentication_scheme_md5_auth_length_modify",
      "modify", "md5-auth-length", Ifnames, {0}, Values, {"iface"}),
  Row("lib_interface_rip_authentication_scheme_md5_auth_length_delete",
      "delete", "md5-auth-length", Ifnames, {0}, {0}, {"iface"}),
  Row("lib_interface_rip_authentication_password_modify", "modify",
      "authentication-password", Ifnames, {0}, Names, {"iface"}),
  Row("lib_interface_rip_authentication_password_delete", "delete",
      "authentication-password", Ifnames, {0}, {0}, {"iface"}),
  Row("lib_interface_rip_authentication_key_chain_modify", "modify",
      "authentication-key-chain", Ifnames, {0}, Names, {"iface"}),
  Row("lib_interface_rip_authentication_key_chain_delete", "delete",
      "authentication-key-chain", Ifnames, {0}, {0}, {"iface"})
}

\* A node handled by another module in the same transaction (coordinator):
\* v = 1 makes its PREPARE fail.
OtherModuleRows == {
  Row("other_module_modify", "modify", "other", {0}, {0}, {0, 1},
      Scopes \cup {"abort-any", "abort-twice"})
}

CallbackTable == frr_ripd_info \cup OtherModuleRows
RowOf(cb) == CHOOSE r \in CallbackTable : r.cb = cb


Changes(sc) ==
  UNION {{[cb |-> r.cb, a |-> a, b |-> b, v |-> v] :
             a \in r.A, b \in r.B, v \in r.V} :
         r \in {q \in CallbackTable : sc \in q.sc}}

Target(c) == Node(RowOf(c.cb).k, c.a, c.b)
OpOf(c) == RowOf(c.cb).op

\* Paths whose existence the running configuration records (presence
\* containers, list and leaf-list entries, leaves with a delete callback).
TrackedPaths == {"instance", "source", "source/access-list", "offset-list",
                 "redistribute", "redistribute/route-map",
                 "redistribute/metric", "explicit-neighbor", "network",
                 "interface", "passive-interface", "non-passive-interface",
                 "static-route", "md5-auth-length", "authentication-password",
                 "authentication-key-chain"}
\* Paths outside /frr-ripd:ripd/instance.
TopPaths == {"instance", "other", "split-horizon", "v2-broadcast",
             "version-receive", "version-send", "authentication-mode",
             "md5-auth-length", "authentication-password",
             "authentication-key-chain"}

Parent(n) ==
  CASE n.k \in TopPaths -> NoNode
    [] n.k \in {"source/distance", "source/access-list"} ->
         Node("source", n.a, 0)
    [] n.k \in {"offset-list/access-list", "offset-list/metric"} ->
         Node("offset-list", n.a, n.b)
    [] n.k \in {"redistribute/route-map", "redistribute/metric"} ->
         Node("redistribute", n.a, 0)
    [] OTHER -> InstanceNode

RECURSIVE Under(_, _)
Under(n, m) ==    \* n is m or a descendant of m
  IF n = m THEN TRUE
  ELSE IF n = NoNode THEN FALSE
  ELSE Under(Parent(n), m)

\* The configuration tree after one change (coordinator).
ApplyChange(t, c) ==
  CASE OpOf(c) = "delete" -> {n \in t : ~Under(n, Target(c))}
    [] Target(c).k \in TrackedPaths -> t \cup {Target(c)}
    [] OTHER -> t

ValidChange(t, c) ==
  /\ Parent(Target(c)) = NoNode \/ Parent(Target(c)) \in t
  /\ OpOf(c) = "create" => Target(c) \notin t
  /\ OpOf(c) = "delete" => Target(c) \in t

\* The batches the coordinator may deliver from tree t: every change is a
\* valid edit of the tree its predecessors leave (parent before child), and
\* no node is changed twice.
RECURSIVE Batches(_, _, _, _)
Batches(t, sc, n, used) ==
  IF n = 0 THEN {<<>>}
  ELSE {<<>>} \cup
       UNION {{<<c>> \o rest :
                 rest \in Batches(ApplyChange(t, c), sc, n - 1,
                                  used \cup {Target(c)})} :
              c \in {d \in Changes(sc) :
                       ValidChange(t, d) /\ Target(d) \notin used}}

RECURSIVE ApplyAll(_, _)
ApplyAll(t, b) ==
  IF b = <<>> THEN t ELSE ApplyAll(ApplyChange(t, Head(b)), Tail(b))


(***************************************************************************)
(* The runtime model.                                                      *)
(***************************************************************************)
RnIds == 1..NPrefix
RdIds == 1..NPrefix
OffIds == 1..(2 * NIf)
StrIds == 1..(NPrefix + 2 * NIf + NProto + 1)

NoRouteMap == [name |-> NULL, map |-> NULL, metric_config |-> FALSE,
               metric |-> 0]
\* rip == NULL
RipNull ==
  [up |-> FALSE, sock |-> NoFd, ecmp |-> 0, default_metric |-> 0,
   distance |-> 0, passive_default |-> 0, garbage_time |-> 0,
   timeout_time |-> 0, update_time |-> 0, t_update |-> 0,
   route_map |-> [t \in Protos |-> NoRouteMap]]

FreeRn == [st |-> "free", p |-> 0, lock |-> 0, info |-> NULL]
FreeRd == [st |-> "free", distance |-> 0, access_list |-> NULL]
FreeOff == [st |-> "free", ifname |-> 0,
            alist_name |-> [d \in Directions |-> NULL],
            metric |-> [d \in Directions |-> 0]]
FreeStr == [st |-> "free", s |-> 0]

NoEngine == [neighbors |-> {}, networks |-> {}, ifs |-> {}, passive |-> {},
             routes |-> {}, default_route |-> FALSE, redist |-> {}]

\* The list and leaf-list entries of the schema.
ListNodes ==
  {Node("source", p, 0) : p \in Prefixes}
  \cup {Node("offset-list", i, d) : i \in Ifnames, d \in Directions}
  \cup {Node("redistribute", t, 0) : t \in Protos}
  \cup {Node(k, p, 0) : k \in {"network", "explicit-neighbor",
                                "static-route"}, p \in Prefixes}
  \cup {Node(k, i, 0) : k \in {"interface", "passive-interface",
                                "non-passive-interface"}, i \in Ifnames}

\* What a transaction must leave untouched when it aborts.
RuntimeModel ==
  [rip |-> rip, rnh |-> rnh, rdh |-> rdh, offh |-> offh, strh |-> strh,
   entry |-> entry, eng |-> eng, fds |-> fdtab]

InitModel ==
  [rip |-> RipNull, rnh |-> [i \in RnIds |-> FreeRn],
   rdh |-> [i \in RdIds |-> FreeRd], offh |-> [i \in OffIds |-> FreeOff],
   strh |-> [i \in StrIds |-> FreeStr],
   entry |-> [n \in ListNodes |-> NULL], eng |-> NoEngine,
   fds |-> [f \in Fds |-> IF f = 0 THEN "open" ELSE "closed"]]

\* The subtrees with an apply_finish callback.
FinishCbs == {"ripd_instance_timers_apply_finish",
              "ripd_instance_redistribute_apply_finish"}
Idle == [phase |-> "idle", batch |-> <<>>, idx |-> 0, nprep |-> 0,
         fin |-> {}, nfin |-> [c \in FinishCbs |-> 0]]
NoRes == [stored |-> FALSE, fd |-> NoFd]
NoCall == [cb |-> "none", ev |-> "none", ret |-> NB_OK, node |-> NoNode]
\* The consumer of operational data has called nothing yet.
NoRead == [op |-> "none", list |-> "none", arg |-> NULL, out |-> NULL,
           rc |-> NB_OK, keys |-> <<>>, n |-> 0, seen |-> {},
           again |-> FALSE]
\* No handler is between two of its statements.
NoStep == [at |-> "none", old |-> NoRouteMap]
\* No passive or non-passive entry has been created and left alone since.
NoMade == [n |-> NoNode, passive |-> {}, back |-> FALSE]
NoSlog == [acq |-> NoFd, by |-> 0, consumed |-> 0, closed |-> 0,
           stray |-> FALSE, failed |-> FALSE]

InitFor(scopes) ==
  /\ scope \in scopes
  /\ tree = {}
  /\ txn = Idle
  /\ res = <<>>
  /\ ret = NB_OK
  /\ last = NoCall
  /\ rip = InitModel.rip
  /\ fdtab = InitModel.fds
  /\ rnh = InitModel.rnh
  /\ rdh = InitModel.rdh
  /\ offh = InitModel.offh
  /\ strh = InitModel.strh
  /\ entry = InitModel.entry
  /\ eng = InitModel.eng
  /\ memerr = {}
  /\ pre = InitModel
  /\ slog = NoSlog
  /\ hist = [outcome |-> "none", applied |-> FALSE, made |-> NoMade]
  /\ reader = NoRead
  /\ wpc = NoStep

(***************************************************************************)
(* What a handler may change, and how it returns.                          *)
(***************************************************************************)
hvars == <<res, rip, fdtab, rnh, rdh, offh, strh, entry, eng, memerr, slog>>
Return(x) == ret' = x
Nothing == UNCHANGED hvars

Min(S) == CHOOSE x \in S : \A y \in S : x <= y

(***************************************************************************)
(* Routing engine and C library (not in rip_northbound.c).                 *)
(***************************************************************************)
\* rip_create_socket(): the lowest free descriptor, or a negative value.
rip_create_socket ==
  {NoFd} \cup (IF \E f \in Fds : fdtab[f] = "closed"
               THEN {Min({f \in Fds : fdtab[f] = "closed"})} ELSE {})

\* The value read from resource->fd: what PREPARE stored, or, when nothing
\* was stored, whatever the union holds.
ResourceFd(r) == IF res[r].stored THEN {res[r].fd} ELSE {NoFd} \cup Fds

\* close(fd): EBADF when fd is not an open descriptor.
close(fd, r) ==
  /\ fdtab' = IF fd \in Fds /\ fdtab[fd] = "open"
              THEN [fdtab EXCEPT ![fd] = "closed"] ELSE fdtab
  /\ slog' = IF fd # NoFd /\ fd = slog.acq /\ r = slog.by
             THEN [slog EXCEPT !.closed = @ + 1]
             ELSE IF fd \in Fds /\ fdtab[fd] = "open"
             THEN [slog EXCEPT !.stray = TRUE]
             ELSE slog

\* rip_create(socket): allocate the instance, which owns the socket.
rip_create(socket, r) ==
  /\ rip' = [RipNull EXCEPT !.up = TRUE, !.sock = socket,
                            !.update_time = 1, !.t_update = 1]
  /\ memerr' = IF rip.up THEN memerr \cup {"instance_leak"} ELSE memerr
  /\ slog' = IF socket # NoFd /\ socket = slog.acq /\ r = slog.by
             THEN [slog EXCEPT !.consumed = @ + 1]
             ELSE [slog EXCEPT !.stray = TRUE]

\* rip_clean(): close the instance's socket, free the instance and every
\* table that hangs off it.
rip_clean ==
  /\ fdtab' = IF rip.up /\ rip.sock \in Fds
              THEN [fdtab EXCEPT ![rip.sock] = "closed"] ELSE fdtab
  /\ rip' = RipNull
  /\ rnh' = InitModel.rnh
  /\ rdh' = InitModel.rdh
  /\ offh' = InitModel.offh
  /\ strh' = InitModel.strh
  /\ eng' = NoEngine

(***************************************************************************)
(* XPath: /frr-ripd:ripd/instance                                          *)
(***************************************************************************)
ripd_instance_create_prepare(r) ==
  \E socket \in rip_create_socket :
    IF socket < 0
    THEN /\ Return(NB_ERR_RESOURCE)
         /\ slog' = [slog EXCEPT !.failed = TRUE]
         /\ UNCHANGED <<res, rip, fdtab, rnh, rdh, offh, strh, entry, eng,
                        memerr>>
    ELSE /\ fdtab' = [fdtab EXCEPT ![socket] = "open"]
         /\ res' = [res EXCEPT ![r] = [stored |-> TRUE, fd |-> socket]]
         /\ slog' = [slog EXCEPT !.acq = socket, !.by = r]
         /\ Return(NB_OK)
         /\ UNCHANGED <<rip, rnh, rdh, offh, strh, entry, eng, memerr>>

\* Faulty variant: ABORT forgets the socket.
instance_create_abort_without_close(r) ==
  /\ Return(NB_OK)
  /\ Nothing

ripd_instance_create_abort(r) ==
  \E socket \in ResourceFd(r) :
    /\ close(socket, r)
    /\ Return(NB_OK)
    /\ UNCHANGED <<res, rip, rnh, rdh, offh, strh, entry, eng, memerr>>

\* Faulty variant: APPLY opens the socket itself and fails when it cannot.
instance_create_apply_opening_socket(r) ==
  \E socket \in rip_create_socket :
    IF socket < 0
    THEN Return(NB_ERR_RESOURCE) /\ Nothing
    ELSE /\ fdtab' = [fdtab EXCEPT ![socket] = "open"]
         /\ rip_create(socket, r)
         /\ Return(NB_OK)
         /\ UNCHANGED <<res, rnh, rdh, offh, strh, entry, eng>>

ripd_instance_create_apply(r) ==
  \E socket \in ResourceFd(r) :
    /\ rip_create(socket, r)
    /\ Return(NB_OK)
    /\ UNCHANGED <<res, fdtab, rnh, rdh, offh, strh, entry, eng>>

ripd_instance_create(event, dnode, r) ==
  CASE event = NB_EV_VALIDATE -> Return(NB_OK) /\ Nothing
    [] event = NB_EV_PREPARE -> ripd_instance_create_prepare(r)
    [] event = NB_EV_ABORT -> ripd_instance_create_abort(r)
    [] event = NB_EV_APPLY -> ripd_instance_create_apply(r)

\* Faulty variant: the instance is destroyed as soon as the delete is
\* prepared.
instance_delete_when_prepared(event, dnode, r) ==
  IF event \notin {NB_EV_PREPARE, NB_EV_APPLY} THEN Return(NB_OK) /\ Nothing
  ELSE /\ rip_clean
       /\ Return(NB_OK)
       /\ UNCHANGED <<res, entry, memerr, slog>>

ripd_instance_delete(event, dnode, r) ==
  IF event # NB_EV_APPLY THEN Return(NB_OK) /\ Nothing
  ELSE /\ rip_clean
       /\ Return(NB_OK)
       /\ UNCHANGED <<res, entry, memerr, slog>>

(***************************************************************************)
(* Writes through the global pointer rip.                                  *)
(***************************************************************************)
\* rip->f = v; a write through rip == NULL is a crash.
RipStore(f, v) ==
  IF rip.up
  THEN /\ rip' = [rip EXCEPT ![f] = v]
       /\ UNCHANGED memerr
  ELSE /\ memerr' = memerr \cup {"null_deref"}
       /\ UNCHANGED rip

(***************************************************************************)
(* XPath: /frr-ripd:ripd/instance/default-metric                           *)
(***************************************************************************)
\* Faulty variant: the value is stored on every event, before the
\* transaction is known to commit.
default_metric_modify_on_any_event(event, dnode, r) ==
  /\ RipStore("default_metric", dnode.v)
  /\ Return(NB_OK)
  /\ UNCHANGED <<res, fdtab, rnh, rdh, offh, strh, entry, eng, slog>>

ripd_instance_default_metric_modify(event, dnode, r) ==
  IF event # NB_EV_APPLY THEN Return(NB_OK) /\ Nothing
  ELSE /\ RipStore("default_metric", dnode.v)
       /\ Return(NB_OK)
       /\ UNCHANGED <<res, fdtab, rnh, rdh, offh, strh, entry, eng, slog>>

(***************************************************************************)
(* Heap cells (C library and lib/table.c, not in rip_northbound.c).        *)
(***************************************************************************)
Live(h, p) == p \in DOMAIN h /\ h[p].st = "live"
Alloc(h) ==
  LET F == {i \in DOMAIN h : h[i].st # "live"}
  IN IF F = {} THEN NULL ELSE Min(F)

\* free(p): free(NULL) does nothing; the cell is gone afterwards.
free(h, p, blank) == IF p \in DOMAIN h THEN [h EXCEPT ![p] = blank] ELSE h
\* Freeing a cell that is not allocated is a double free.
FreeErr(h, p) == IF p # NULL /\ ~Live(h, p) THEN {"double_free"} ELSE {}

\* strdup(name): a fresh string.
strdup(h, name) ==
  LET p == Alloc(h)
  IN [p |-> p,
      h |-> IF p = NULL THEN h
            ELSE [h EXCEPT ![p] = [st |-> "live", s |-> name]]]

\* route_node_get(table, prefix): the node of the prefix, locked once more;
\* a new node when the table has none.
route_node_get(h, prefix) ==
  LET ex == {i \in DOMAIN h : h[i].st = "live" /\ h[i].p = prefix}
      rn == IF ex # {} THEN Min(ex) ELSE Alloc(h)
  IN [rn |-> rn,
      h |-> IF rn = NULL THEN h
            ELSE IF ex # {} THEN [h EXCEPT ![rn].lock = @ + 1]
            ELSE [h EXCEPT ![rn] = [st |-> "live", p |-> prefix, lock |-> 1,
                                    info |-> NULL]]]

\* route_unlock_node(rn): the node is deleted with its last lock.
route_unlock_node(h, rn) ==
  IF h[rn].lock > 1 THEN [h EXCEPT ![rn].lock = @ - 1]
  ELSE [h EXCEPT ![rn] = FreeRn]

\* rip_distance_new(): a zeroed struct rip_distance.
rip_distance_new(h) ==
  LET p == Alloc(h)
  IN [p |-> p,
      h |-> IF p = NULL THEN h
            ELSE [h EXCEPT ![p] = [FreeRd EXCEPT !.st = "live"]]]

\* rip_distance_free(rdistance): frees the record, not its access_list.
rip_distance_free(h, rdistance) == free(h, rdistance, FreeRd)

(***************************************************************************)
(* Entry bindings (yang_dnode_set_entry / yang_dnode_get_entry).           *)
(***************************************************************************)
yang_dnode_set_entry(n, ptr) == [entry EXCEPT ![n] = ptr]

\* The entry of the nearest ancestor that has one; NULL when none has.
RECURSIVE yang_dnode_get_entry(_)
yang_dnode_get_entry(n) ==
  IF n = NoNode THEN NULL
  ELSE IF n \in ListNodes /\ entry[n] # NULL THEN entry[n]
  ELSE yang_dnode_get_entry(Parent(n))

\* The process dies on a bad pointer: the error is recorded, nothing else
\* changes.
Fault(e) ==
  /\ memerr' = memerr \cup {e}
  /\ Return("CRASH")
  /\ UNCHANGED <<res, rip, fdtab, rnh, rdh, offh, strh, entry, eng, slog>>

\* What dereferencing p in heap h does wrong, if anything.
BadPtr(h, p) ==
  IF p = NULL THEN "null_deref" ELSE IF ~Live(h, p) THEN "use_after_free"
  ELSE "ok"

(***************************************************************************)
(* XPath: /frr-ripd:ripd/instance/distance/source                          *)
(***************************************************************************)
\* Faulty variant: the entry is created on every event.
distance_source_create_on_any_event(event, dnode, r) ==
  LET g == route_node_get(rnh, dnode.a)
      d == rip_distance_new(rdh)
  IN IF g.rn = NULL \/ d.p = NULL THEN Fault("out_of_memory")
     ELSE /\ rnh' = [g.h EXCEPT ![g.rn].info = d.p]
          /\ rdh' = d.h
          /\ entry' = yang_dnode_set_entry(Target(dnode), g.rn)
          /\ Return(NB_OK)
          /\ UNCHANGED <<res, rip, fdtab, offh, strh, eng, memerr, slog>>

\* Faulty variant: the entry is created but never bound to its node.
distance_source_create_unbound(event, dnode, r) ==
  IF event # NB_EV_APPLY THEN Return(NB_OK) /\ Nothing
  ELSE LET g == route_node_get(rnh, dnode.a)
           d == rip_distance_new(rdh)
       IN IF g.rn = NULL \/ d.p = NULL THEN Fault("out_of_memory")
          ELSE /\ rnh' = [g.h EXCEPT ![g.rn].info = d.p]
               /\ rdh' = d.h
               /\ Return(NB_OK)
               /\ UNCHANGED <<res, rip, fdtab, offh, strh, entry, eng,
                              memerr, slog>>

ripd_instance_distance_source_create(event, dnode, r) ==
  IF event # NB_EV_APPLY THEN Return(NB_OK) /\ Nothing
  ELSE LET g == route_node_get(rnh, dnode.a)
           d == rip_distance_new(rdh)
       IN IF g.rn = NULL \/ d.p = NULL THEN Fault("out_of_memory")
          ELSE /\ rnh' = [g.h EXCEPT ![g.rn].info = d.p]
               /\ rdh' = d.h
               /\ entry' = yang_dnode_set_entry(Target(dnode), g.rn)
               /\ Return(NB_OK)
               /\ UNCHANGED <<res, rip, fdtab, offh, strh, eng, memerr, slog>>

ripd_instance_distance_source_delete(event, dnode, r) ==
  IF event # NB_EV_APPLY THEN Return(NB_OK) /\ Nothing
  ELSE LET rn == yang_dnode_get_entry(Target(dnode))
       IN IF BadPtr(rnh, rn) # "ok" THEN Fault(BadPtr(rnh, rn))
          ELSE LET rdistance == rnh[rn].info
          IN IF BadPtr(rdh, rdistance) # "ok"
             THEN Fault(BadPtr(rdh, rdistance))
             ELSE LET acl == rdh[rdistance].access_list
             IN /\ strh' = IF acl # NULL THEN free(strh, acl, FreeStr)
                           ELSE strh
                /\ rdh' = rip_distance_free(rdh, rdistance)
                /\ rnh' = route_unlock_node([rnh EXCEPT ![rn].info = NULL],
                                            rn)
                /\ memerr' = memerr \cup FreeErr(strh, acl)
                /\ Return(NB_OK)
                /\ UNCHANGED <<res, rip, fdtab, offh, entry, eng, slog>>

(***************************************************************************)
(* XPath: /frr-ripd:ripd/instance/distance/source/distance                 *)
(***************************************************************************)
ripd_instance_distance_source_distance_modify(event, dnode, r) ==
  IF event # NB_EV_APPLY THEN Return(NB_OK) /\ Nothing
  ELSE LET rn == yang_dnode_get_entry(Target(dnode))
       IN IF BadPtr(rnh, rn) # "ok" THEN Fault(BadPtr(rnh, rn))
          ELSE LET rdistance == rnh[rn].info
          IN IF BadPtr(rdh, rdistance) # "ok"
             THEN Fault(BadPtr(rdh, rdistance))
             ELSE /\ rdh' = [rdh EXCEPT ![rdistance].distance = dnode.v]
                  /\ Return(NB_OK)
                  /\ UNCHANGED <<res, rip, fdtab, rnh, offh, strh, entry,
                                 eng, memerr, slog>>

(***************************************************************************)
(* XPath: /frr-ripd:ripd/instance/distance/source/access-list              *)
(***************************************************************************)
ripd_instance_distance_source_access_list_modify(event, dnode, r) ==
  IF event # NB_EV_APPLY THEN Return(NB_OK) /\ Nothing
  ELSE LET rn == yang_dnode_get_entry(Target(dnode))
       IN IF BadPtr(rnh, rn) # "ok" THEN Fault(BadPtr(rnh, rn))
          ELSE LET rdistance == rnh[rn].info
          IN IF BadPtr(rdh, rdistance) # "ok"
             THEN Fault(BadPtr(rdh, rdistance))
             ELSE LET old == rdh[rdistance].access_list
                      h1 == IF old # NULL THEN free(strh, old, FreeStr)
                            ELSE strh
                      new == strdup(h1, dnode.v)
             IN /\ strh' = new.h
                /\ rdh' = [rdh EXCEPT ![rdistance].access_list = new.p]
                /\ memerr' = memerr \cup FreeErr(strh, old)
                /\ Return(NB_OK)
                /\ UNCHANGED <<res, rip, fdtab, rnh, offh, entry, eng, slog>>

\* Faulty variant: resetting the access-list frees the whole record.
access_list_delete_freeing_record(event, dnode, r) ==
  IF event # NB_EV_APPLY THEN Return(NB_OK) /\ Nothing
  ELSE LET rn == yang_dnode_get_entry(Target(dnode))
       IN IF BadPtr(rnh, rn) # "ok" THEN Fault(BadPtr(rnh, rn))
          ELSE LET rdistance == rnh[rn].info
               IN IF BadPtr(rdh, rdistance) # "ok"
                  THEN Fault(BadPtr(rdh, rdistance))
                  ELSE /\ strh' = free(strh, rdh[rdistance].access_list,
                                       FreeStr)
                       /\ rdh' = rip_distance_free(rdh, rdistance)
                       /\ Return(NB_OK)
                       /\ UNCHANGED <<res, rip, fdtab, rnh, offh, entry, eng,
                                      memerr, slog>>

ripd_instance_distance_source_access_list_delete(event, dnode, r) ==
  IF event # NB_EV_APPLY THEN Return(NB_OK) /\ Nothing
  ELSE LET rn == yang_dnode_get_entry(Target(dnode))
       IN IF BadPtr(rnh, rn) # "ok" THEN Fault(BadPtr(rnh, rn))
          ELSE LET rdistance == rnh[rn].info
          IN IF BadPtr(rdh, rdistance) # "ok"
             THEN Fault(BadPtr(rdh, rdistance))
             ELSE LET old == rdh[rdistance].access_list
             IN /\ strh' = free(strh, old, FreeStr)
                /\ rdh' = [rdh EXCEPT ![rdistance].access_list = NULL]
                /\ memerr' = memerr \cup FreeErr(strh, old)
                /\ Return(NB_OK)
                /\ UNCHANGED <<res, rip, fdtab, rnh, offh, entry, eng, slog>>

(***************************************************************************)
(* XPath: /frr-ripd:ripd/instance/offset-list                              *)
(***************************************************************************)
\* rip_offset_list_new(ifname): a zeroed record, linked into the master list
\* (engine).
rip_offset_list_new(h, ifname) ==
  LET p == Alloc(h)
  IN [p |-> p,
      h |-> IF p = NULL THEN h
            ELSE [h EXCEPT ![p] = [FreeOff EXCEPT !.st = "live",
                                                  !.ifname = ifname]]]

\* offset_list_del(offset): unlink the record, free the names it still
\* holds, free the record (engine).
offset_list_del_strings(sh, rec) ==
  LET h1 == free(sh, rec.alist_name[RIP_OFFSET_LIST_IN], FreeStr)
  IN free(h1, rec.alist_name[RIP_OFFSET_LIST_OUT], FreeStr)

offset_list_del(h, offset) == free(h, offset, FreeOff)

\* Faulty variant: the record is made but the node is not bound to it.
offset_list_create_without_binding(event, dnode, r) ==
  IF event # NB_EV_APPLY THEN Return(NB_OK) /\ Nothing
  ELSE LET o == rip_offset_list_new(offh, dnode.a)
       IN IF o.p = NULL THEN Fault("out_of_memory")
          ELSE /\ offh' = o.h
               /\ Return(NB_OK)
               /\ UNCHANGED <<res, rip, fdtab, rnh, rdh, strh, entry, eng,
                              memerr, slog>>

ripd_instance_offset_list_create(event, dnode, r) ==
  IF event # NB_EV_APPLY THEN Return(NB_OK) /\ Nothing
  ELSE LET o == rip_offset_list_new(offh, dnode.a)
       IN IF o.p = NULL THEN Fault("out_of_memory")
          ELSE /\ offh' = o.h
               /\ entry' = yang_dnode_set_entry(Target(dnode), o.p)
               /\ Return(NB_OK)
               /\ UNCHANGED <<res, rip, fdtab, rnh, rdh, strh, eng, memerr,
                              slog>>

\* Faulty variant: the name is cleared but the record is never deleted.
offset_list_delete_keeping_record(event, dnode, r) ==
  IF event # NB_EV_APPLY THEN Return(NB_OK) /\ Nothing
  ELSE LET direct == dnode.b
           offset == yang_dnode_get_entry(Target(dnode))
       IN IF BadPtr(offh, offset) # "ok" THEN Fault(BadPtr(offh, offset))
          ELSE LET old == offh[offset].alist_name[direct]
               IN /\ strh' = free(strh, old, FreeStr)
                  /\ offh' = [offh EXCEPT ![offset].alist_name[direct] = NULL]
                  /\ Return(NB_OK)
                  /\ UNCHANGED <<res, rip, fdtab, rnh, rdh, entry, eng,
                                 memerr, slog>>

ripd_instance_offset_list_delete(event, dnode, r) ==
  IF event # NB_EV_APPLY THEN Return(NB_OK) /\ Nothing
  ELSE LET direct == dnode.b
           offset == yang_dnode_get_entry(Target(dnode))
       IN IF BadPtr(offh, offset) # "ok" THEN Fault(BadPtr(offh, offset))
          ELSE LET old == offh[offset].alist_name[direct]
                   s1 == IF old # NULL THEN free(strh, old, FreeStr)
                         ELSE strh
                   o1 == IF old # NULL
                         THEN [offh EXCEPT ![offset].alist_name[direct] = NULL]
                         ELSE offh
                   both == /\ o1[offset].alist_name[RIP_OFFSET_LIST_IN] = NULL
                           /\ o1[offset].alist_name[RIP_OFFSET_LIST_OUT] = NULL
          IN /\ strh' = IF both THEN offset_list_del_strings(s1, o1[offset])
                        ELSE s1
             /\ offh' = IF both THEN offset_list_del(o1, offset) ELSE o1
             /\ memerr' = memerr \cup FreeErr(strh, old)
             /\ Return(NB_OK)
             /\ UNCHANGED <<res, rip, fdtab, rnh, rdh, entry, eng, slog>>

(***************************************************************************)
(* XPath: /frr-ripd:ripd/instance/offset-list/access-list                  *)
(***************************************************************************)
ripd_instance_offset_list_access_list_modify(event, dnode, r) ==
  IF event # NB_EV_APPLY THEN Return(NB_OK) /\ Nothing
  ELSE LET direct == dnode.b
           offset == yang_dnode_get_entry(Target(dnode))
       IN IF BadPtr(offh, offset) # "ok" THEN Fault(BadPtr(offh, offset))
          ELSE LET old == offh[offset].alist_name[direct]
                   h1 == IF old # NULL THEN free(strh, old, FreeStr)
                         ELSE strh
                   new == strdup(h1, dnode.v)
          IN /\ strh' = new.h
             /\ offh' = [offh EXCEPT ![offset].alist_name[direct] = new.p]
             /\ memerr' = memerr \cup FreeErr(strh, old)
             /\ Return(NB_OK)
             /\ UNCHANGED <<res, rip, fdtab, rnh, rdh, entry, eng, slog>>

(***************************************************************************)
(* XPath: /frr-ripd:ripd/instance/offset-list/metric                       *)
(***************************************************************************)
ripd_instance_offset_list_metric_modify(event, dnode, r) ==
  IF event # NB_EV_APPLY THEN Return(NB_OK) /\ Nothing
  ELSE LET direct == dnode.b
           offset == yang_dnode_get_entry(Target(dnode))
       IN IF BadPtr(offh, offset) # "ok" THEN Fault(BadPtr(offh, offset))
          ELSE /\ offh' = [offh EXCEPT ![offset].metric[direct] = dnode.v]
               /\ Return(NB_OK)
               /\ UNCHANGED <<res, rip, fdtab, rnh, rdh, strh, entry, eng,
                              memerr, slog>>

(***************************************************************************)
(* Routing-engine calls on the instance's tables (ripd.c, rip_interface.c, *)
(* rip_zebra.c: not in rip_northbound.c).  A call that adds what is there, *)
(* or removes what is not, reports an error and changes nothing.           *)
(***************************************************************************)
EngineAdd(f, x) ==
  IF x \in eng[f]
  THEN /\ Return(ENGINE_ERR)
       /\ UNCHANGED eng
  ELSE /\ Return(NB_OK)
       /\ eng' = [eng EXCEPT ![f] = @ \cup {x}]

EngineDel(f, x) ==
  IF x \notin eng[f]
  THEN /\ Return(ENGINE_ERR)
       /\ UNCHANGED eng
  ELSE /\ Return(NB_OK)
       /\ eng' = [eng EXCEPT ![f] = @ \ {x}]

rip_neighbor_add(p) == EngineAdd("neighbors", p)
rip_neighbor_delete(p) == EngineDel("neighbors", p)
rip_enable_network_add(p) == EngineAdd("networks", p)
rip_enable_network_delete(p) == EngineDel("networks", p)
rip_enable_if_add(ifname) == EngineAdd("ifs", ifname)
rip_enable_if_delete(ifname) == EngineDel("ifs", ifname)
rip_passive_nondefault_set(ifname) == EngineAdd("passive", ifname)
rip_passive_nondefault_unset(ifname) == EngineDel("passive", ifname)
rip_passive_nondefault_clean == eng' = [eng EXCEPT !.passive = {}]

\* rip_redistribute_add / rip_redistribute_delete of a static route or of
\* the default route: the handlers take no result from them; adding twice
\* is adding once.
rip_redistribute_add(p) == eng' = [eng EXCEPT !.routes = @ \cup {p}]
rip_redistribute_delete(p) == eng' = [eng EXCEPT !.routes = @ \ {p}]
rip_redistribute_default(on) == eng' = [eng EXCEPT !.default_route = on]

\* What the engine call made by the APPLY of change c reports in the current
\* state (interface description: each call either succeeds or reports a
\* domain error): an error when it adds what is there or removes what is
\* not, whether or not the function has a way to return it.
AddReport(f, x) == IF x \in eng[f] THEN ENGINE_ERR ELSE NB_OK
DelReport(f, x) == IF x \notin eng[f] THEN ENGINE_ERR ELSE NB_OK
EngineReport(c) ==
  CASE c.cb = "ripd_instance_create" ->
         IF rip.up THEN ENGINE_ERR ELSE NB_OK
    [] c.cb = "ripd_instance_default_information_originate_modify" ->
         IF eng.default_route = (c.v = 1) THEN ENGINE_ERR ELSE NB_OK
    [] c.cb = "ripd_instance_explicit_neighbor_create" ->
         AddReport("neighbors", c.a)
    [] c.cb = "ripd_instance_explicit_neighbor_delete" ->
         DelReport("neighbors", c.a)
    [] c.cb = "ripd_instance_network_create" -> AddReport("networks", c.a)
    [] c.cb = "ripd_instance_network_delete" -> DelReport("networks", c.a)
    [] c.cb = "ripd_instance_interface_create" -> AddReport("ifs", c.a)
    [] c.cb = "ripd_instance_interface_delete" -> DelReport("ifs", c.a)
    [] c.cb = "ripd_instance_passive_interface_create" ->
         AddReport("passive", c.a)
    [] c.cb = "ripd_instance_passive_interface_delete" ->
         DelReport("passive", c.a)
    [] c.cb = "ripd_instance_non_passive_interface_create" ->
         DelReport("passive", c.a)
    [] c.cb = "ripd_instance_non_passive_interface_delete" ->
         AddReport("passive", c.a)
    [] c.cb = "ripd_instance_static_route_create" -> AddReport("routes", c.a)
    [] c.cb = "ripd_instance_static_route_delete" -> DelReport("routes", c.a)
    [] OTHER -> NB_OK

\* rip_redistribute_conf_update(type) / rip_redistribute_conf_delete(type).
rip_redistribute_conf_update(type) ==
  eng' = [eng EXCEPT !.redist = @ \cup {type}]
rip_redistribute_conf_delete(type) ==
  eng' = [eng EXCEPT !.redist = @ \ {type}]

\* The route-maps that are defined; route_map_lookup_by_name(name).
RouteMaps == {1}
route_map_lookup_by_name(name) == IF name \in RouteMaps THEN name ELSE NULL

\* rip_event(RIP_UPDATE_EVENT, 0): cancel the update timer and arm it again
\* with the whole update interval.
rip_event_update ==
  IF rip.up
  THEN /\ rip' = [rip EXCEPT !.t_update = rip.update_time]
       /\ UNCHANGED memerr
  ELSE /\ memerr' = memerr \cup {"null_deref"}
       /\ UNCHANGED rip

(***************************************************************************)
(* XPath: /frr-ripd:ripd/instance/allow-ecmp                               *)
(***************************************************************************)
\* rip_ecmp_disable() drops multipath routes; the model keeps none.
ripd_instance_allow_ecmp_modify(event, dnode, r) ==
  IF event # NB_EV_APPLY THEN Return(NB_OK) /\ Nothing
  ELSE /\ RipStore("ecmp", dnode.v)
       /\ Return(NB_OK)
       /\ UNCHANGED <<res, fdtab, rnh, rdh, offh, strh, entry, eng, slog>>

(***************************************************************************)
(* XPath: /frr-ripd:ripd/instance/default-information-originate            *)
(***************************************************************************)
ripd_instance_default_information_originate_modify(event, dnode, r) ==
  IF event # NB_EV_APPLY THEN Return(NB_OK) /\ Nothing
  ELSE /\ rip_redistribute_default(dnode.v = 1)
       /\ Return(NB_OK)
       /\ UNCHANGED <<res, rip, fdtab, rnh, rdh, offh, strh, entry, memerr,
                      slog>>

(***************************************************************************)
(* XPath: /frr-ripd:ripd/instance/distance/default                         *)
(***************************************************************************)
\* Faulty variant: the distance is stored in the default-metric field.
distance_default_modify_into_default_metric(event, dnode, r) ==
  IF event # NB_EV_APPLY THEN Return(NB_OK) /\ Nothing
  ELSE /\ RipStore("default_metric", dnode.v)
       /\ Return(NB_OK)
       /\ UNCHANGED <<res, fdtab, rnh, rdh, offh, strh, entry, eng, slog>>

ripd_instance_distance_default_modify(event, dnode, r) ==
  IF event # NB_EV_APPLY THEN Return(NB_OK) /\ Nothing
  ELSE /\ RipStore("distance", dnode.v)
       /\ Return(NB_OK)
       /\ UNCHANGED <<res, fdtab, rnh, rdh, offh, strh, entry, eng, slog>>

(***************************************************************************)
(* XPath: /frr-ripd:ripd/instance/explicit-neighbor, network, interface    *)
(***************************************************************************)
EngineFrame ==
  UNCHANGED <<res, rip, fdtab, rnh, rdh, offh, strh, entry, memerr, slog>>

ripd_instance_explicit_neighbor_create(event, dnode, r) ==
  IF event # NB_EV_APPLY THEN Return(NB_OK) /\ Nothing
  ELSE rip_neighbor_add(dnode.a) /\ EngineFrame

ripd_instance_explicit_neighbor_delete(event, dnode, r) ==
  IF event # NB_EV_APPLY THEN Return(NB_OK) /\ Nothing
  ELSE rip_neighbor_delete(dnode.a) /\ EngineFrame

ripd_instance_network_create(event, dnode, r) ==
  IF event # NB_EV_APPLY THEN Return(NB_OK) /\ Nothing
  ELSE rip_enable_network_add(dnode.a) /\ EngineFrame

ripd_instance_network_delete(event, dnode, r) ==
  IF event # NB_EV_APPLY THEN Return(NB_OK) /\ Nothing
  ELSE rip_enable_network_delete(dnode.a) /\ EngineFrame

ripd_instance_interface_create(event, dnode, r) ==
  IF event # NB_EV_APPLY THEN Return(NB_OK) /\ Nothing
  ELSE rip_enable_if_add(dnode.a) /\ EngineFrame

ripd_instance_interface_delete(event, dnode, r) ==
  IF event # NB_EV_APPLY THEN Return(NB_OK) /\ Nothing
  ELSE rip_enable_if_delete(dnode.a) /\ EngineFrame

(***************************************************************************)
(* XPath: /frr-ripd:ripd/instance/passive-default, passive-interface,      *)
(* non-passive-interface                                                   *)
(***************************************************************************)
\* Faulty variant: the default is stored and the overrides are kept.
passive_default_modify_keeping_overrides(event, dnode, r) ==
  IF event # NB_EV_APPLY THEN Return(NB_OK) /\ Nothing
  ELSE /\ RipStore("passive_default", dnode.v)
       /\ Return(NB_OK)
       /\ UNCHANGED <<res, fdtab, rnh, rdh, offh, strh, entry, eng, slog>>

ripd_instance_passive_default_modify(event, dnode, r) ==
  IF event # NB_EV_APPLY THEN Return(NB_OK) /\ Nothing
  ELSE /\ RipStore("passive_default", dnode.v)
       /\ rip_passive_nondefault_clean
       /\ Return(NB_OK)
       /\ UNCHANGED <<res, fdtab, rnh, rdh, offh, strh, entry, slog>>

ripd_instance_passive_interface_create(event, dnode, r) ==
  IF event # NB_EV_APPLY THEN Return(NB_OK) /\ Nothing
  ELSE rip_passive_nondefault_set(dnode.a) /\ EngineFrame

ripd_instance_passive_interface_delete(event, dnode, r) ==
  IF event # NB_EV_APPLY THEN Return(NB_OK) /\ Nothing
  ELSE rip_passive_nondefault_unset(dnode.a) /\ EngineFrame

\* Faulty variant: when the engine refuses the call, the handler rolls the
\* engine's tables back to those of a fresh instance before it returns the
\* error.
non_passive_interface_create_rolling_back(event, dnode, r) ==
  IF event # NB_EV_APPLY THEN Return(NB_OK) /\ Nothing
  ELSE /\ Return(DelReport("passive", dnode.a))
       /\ eng' = IF DelReport("passive", dnode.a) = ENGINE_ERR THEN NoEngine
                 ELSE [eng EXCEPT !.passive = @ \ {dnode.a}]
       /\ EngineFrame

ripd_instance_non_passive_interface_create(event, dnode, r) ==
  IF event # NB_EV_APPLY THEN Return(NB_OK) /\ Nothing
  ELSE rip_passive_nondefault_unset(dnode.a) /\ EngineFrame

\* Faulty variant: deleting the entry removes the override, as deleting a
\* passive-interface entry does.
non_passive_interface_delete_unsetting(event, dnode, r) ==
  IF event # NB_EV_APPLY THEN Return(NB_OK) /\ Nothing
  ELSE rip_passive_nondefault_unset(dnode.a) /\ EngineFrame

ripd_instance_non_passive_interface_delete(event, dnode, r) ==
  IF event # NB_EV_APPLY THEN Return(NB_OK) /\ Nothing
  ELSE rip_passive_nondefault_set(dnode.a) /\ EngineFrame

(***************************************************************************)
(* XPath: /frr-ripd:ripd/instance/redistribute                             *)
(***************************************************************************)
ripd_instance_redistribute_create(event, dnode, r) ==
  Return(NB_OK) /\ Nothing

ripd_instance_redistribute_delete(event, dnode, r) ==
  IF event # NB_EV_APPLY THEN Return(NB_OK) /\ Nothing
  ELSE /\ rip_redistribute_conf_delete(dnode.a)
       /\ Return(NB_OK)
       /\ EngineFrame

\* Faulty variant: redistribution is toggled instead of switched on.
redistribute_apply_finish_toggling(dnode) ==
  /\ eng' = [eng EXCEPT !.redist = IF dnode.a \in @ THEN @ \ {dnode.a}
                                   ELSE @ \cup {dnode.a}]
  /\ EngineFrame

ripd_instance_redistribute_apply_finish(dnode) ==
  /\ rip_redistribute_conf_update(dnode.a)
  /\ EngineFrame

(***************************************************************************)
(* XPath: /frr-ripd:ripd/instance/redistribute/route-map                   *)
(***************************************************************************)
RipFrame == UNCHANGED <<res, fdtab, rnh, rdh, offh, entry, eng, slog>>

ripd_instance_redistribute_route_map_modify(event, dnode, r) ==
  IF event # NB_EV_APPLY THEN Return(NB_OK) /\ Nothing
  ELSE IF ~rip.up THEN Fault("null_deref")
  ELSE LET type == dnode.a
           old == rip.route_map[type].name
           h1 == IF old # NULL THEN free(strh, old, FreeStr) ELSE strh
           new == strdup(h1, dnode.v)
       IN /\ strh' = new.h
          /\ rip' = [rip EXCEPT
                       !.route_map[type].name = new.p,
                       !.route_map[type].map =
                           route_map_lookup_by_name(dnode.v)]
          /\ memerr' = memerr \cup FreeErr(strh, old)
          /\ Return(NB_OK)
          /\ RipFrame

ripd_instance_redistribute_route_map_delete(event, dnode, r) ==
  IF event # NB_EV_APPLY THEN Return(NB_OK) /\ Nothing
  ELSE IF ~rip.up THEN Fault("null_deref")
  ELSE LET type == dnode.a
           old == rip.route_map[type].name
       IN /\ strh' = IF old # NULL THEN free(strh, old, FreeStr) ELSE strh
          /\ rip' = IF old # NULL
                    THEN [rip EXCEPT !.route_map[type].name = NULL]
                    ELSE rip
          /\ memerr' = memerr \cup FreeErr(strh, old)
          /\ Return(NB_OK)
          /\ RipFrame

(***************************************************************************)
(* XPath: /frr-ripd:ripd/instance/redistribute/metric                      *)
(***************************************************************************)
ripd_instance_redistribute_metric_modify(event, dnode, r) ==
  IF event # NB_EV_APPLY THEN Return(NB_OK) /\ Nothing
  ELSE IF ~rip.up THEN Fault("null_deref")
  ELSE /\ rip' = [rip EXCEPT !.route_map[dnode.a].metric_config = TRUE,
                             !.route_map[dnode.a].metric = dnode.v]
       /\ Return(NB_OK)
       /\ UNCHANGED <<strh, memerr>>
       /\ RipFrame

ripd_instance_redistribute_metric_delete(event, dnode, r) ==
  IF event # NB_EV_APPLY THEN Return(NB_OK) /\ Nothing
  ELSE IF ~rip.up THEN Fault("null_deref")
  ELSE /\ rip' = [rip EXCEPT !.route_map[dnode.a].metric_config = FALSE,
                             !.route_map[dnode.a].metric = 0]
       /\ Return(NB_OK)
       /\ UNCHANGED <<strh, memerr>>
       /\ RipFrame

(***************************************************************************)
(* XPath: /frr-ripd:ripd/instance/static-route                             *)
(***************************************************************************)
ripd_instance_static_route_create(event, dnode, r) ==
  IF event # NB_EV_APPLY THEN Return(NB_OK) /\ Nothing
  ELSE /\ rip_redistribute_add(dnode.a)
       /\ Return(NB_OK)
       /\ EngineFrame

ripd_instance_static_route_delete(event, dnode, r) ==
  IF event # NB_EV_APPLY THEN Return(NB_OK) /\ Nothing
  ELSE /\ rip_redistribute_delete(dnode.a)
       /\ Return(NB_OK)
       /\ EngineFrame

(***************************************************************************)
(* XPath: /frr-ripd:ripd/instance/timers/                                  *)
(***************************************************************************)
ripd_instance_timers_apply_finish(dnode) ==
  /\ rip_event_update
  /\ UNCHANGED <<res, fdtab, rnh, rdh, offh, strh, entry, eng, slog>>

ripd_instance_timers_flush_interval_modify(event, dnode, r) ==
  IF event # NB_EV_APPLY THEN Return(NB_OK) /\ Nothing
  ELSE /\ RipStore("garbage_time", dnode.v)
       /\ Return(NB_OK)
       /\ UNCHANGED <<res, fdtab, rnh, rdh, offh, strh, entry, eng, slog>>

ripd_instance_timers_holddown_interval_modify(event, dnode, r) ==
  IF event # NB_EV_APPLY THEN Return(NB_OK) /\ Nothing
  ELSE /\ RipStore("timeout_time", dnode.v)
       /\ Return(NB_OK)
       /\ UNCHANGED <<res, fdtab, rnh, rdh, offh, strh, entry, eng, slog>>

ripd_instance_timers_update_interval_modify(event, dnode, r) ==
  IF event # NB_EV_APPLY THEN Return(NB_OK) /\ Nothing
  ELSE /\ RipStore("update_time", dnode.v)
       /\ Return(NB_OK)
       /\ UNCHANGED <<res, fdtab, rnh, rdh, offh, strh, entry, eng, slog>>

(***************************************************************************)
(* Placeholders ("TODO: implement me"): /frr-ripd:ripd/instance/version/*  *)
(* and /frr-interface:lib/interface/frr-ripd:rip/*                         *)
(***************************************************************************)
ripd_instance_version_receive_modify(event, dnode, r) ==
  Return(NB_OK) /\ Nothing
ripd_instance_version_send_modify(event, dnode, r) ==
  Return(NB_OK) /\ Nothing
\* Faulty variant: the unimplemented handler refuses the change.
split_horizon_modify_refusing(event, dnode, r) ==
  Return(FOREIGN_ERR) /\ Nothing

lib_interface_rip_split_horizon_modify(event, dnode, r) ==
  Return(NB_OK) /\ Nothing
lib_interface_rip_v2_broadcast_modify(event, dnode, r) ==
  Return(NB_OK) /\ Nothing
lib_interface_rip_version_receive_modify(event, dnode, r) ==
  Return(NB_OK) /\ Nothing
lib_interface_rip_version_send_modify(event, dnode, r) ==
  Return(NB_OK) /\ Nothing
lib_interface_rip_authentication_scheme_mode_modify(event, dnode, r) ==
  Return(NB_OK) /\ Nothing
lib_interface_rip_authentication_scheme_md5_auth_length_modify(event, dnode, r) ==
  Return(NB_OK) /\ Nothing
lib_interface_rip_authentication_scheme_md5_auth_length_delete(event, dnode, r) ==
  Return(NB_OK) /\ Nothing
lib_interface_rip_authentication_password_modify(event, dnode, r) ==
  Return(NB_OK) /\ Nothing
lib_interface_rip_authentication_password_delete(event, dnode, r) ==
  Return(NB_OK) /\ Nothing
lib_interface_rip_authentication_key_chain_modify(event, dnode, r) ==
  Return(NB_OK) /\ Nothing
lib_interface_rip_authentication_key_chain_delete(event, dnode, r) ==
  Return(NB_OK) /\ Nothing

(***************************************************************************)
(* A node of another module in the same transaction (coordinator): its     *)
(* PREPARE may fail, it holds no state of ripd.                            *)
(***************************************************************************)
other_module_modify(event, dnode, r) ==
  /\ Return(IF event = NB_EV_PREPARE /\ dnode.v = 1
            THEN FOREIGN_ERR ELSE NB_OK)
  /\ Nothing


(***************************************************************************)
(* The transaction coordinator (lib/northbound.c, modelled from the        *)
(* interface description): VALIDATE for all changes, PREPARE for all, then *)
(* APPLY for all, or ABORT for the changes that prepared.                  *)
(***************************************************************************)
Cur == txn.batch[txn.idx]
Deliver(cb) == txn.phase \in Events /\ Cur.cb = cb

TimerPaths == {"timers/flush-interval", "timers/holddown-interval",
               "timers/update-interval"}

\* The apply_finish callbacks of a batch: one per subtree with a change,
\* for the subtrees that exist once the batch is applied.
FinishSet(t, b) ==
  LET after == ApplyAll(t, b)
      cs == {b[i] : i \in 1..Len(b)}
  IN {[cb |-> "ripd_instance_timers_apply_finish", a |-> 0] : c \in
        {d \in cs : Target(d).k \in TimerPaths /\ InstanceNode \in after}}
     \cup
     {[cb |-> "ripd_instance_redistribute_apply_finish", a |-> Target(c).a] :
        c \in {d \in cs :
                 /\ Under(Target(d), Node("redistribute", Target(d).a, 0))
                 /\ Node("redistribute", Target(d).a, 0) \in after}}

\* Whether ABORT is also delivered to the change whose PREPARE failed.
AbortsFailed == scope = "abort-any"

\* History of the per-interface overrides: the entry whose create was
\* applied last and the overrides that create found, for as long as no other
\* step has changed the overrides; back: that entry's delete has been
\* applied since.
OverrideCreates == {"ripd_instance_passive_interface_create",
                    "ripd_instance_non_passive_interface_create"}
OverrideDeletes == {"ripd_instance_passive_interface_delete",
                    "ripd_instance_non_passive_interface_delete"}
Made ==
  IF txn.phase = NB_EV_APPLY /\ Cur.cb \in OverrideCreates
  THEN [n |-> Target(Cur), passive |-> eng.passive, back |-> FALSE]
  ELSE IF /\ txn.phase = NB_EV_APPLY /\ Cur.cb \in OverrideDeletes
          /\ Target(Cur) = hist.made.n /\ ~hist.made.back
  THEN [hist.made EXCEPT !.back = TRUE]
  ELSE IF \/ eng'.passive # eng.passive
          \/ txn.phase = NB_EV_APPLY /\ Cur.cb \in OverrideDeletes
  THEN NoMade
  ELSE hist.made

Ended(outcome) ==
  /\ txn' = [Idle EXCEPT !.phase = "ended"]
  /\ hist' = [outcome |-> outcome,
              applied |-> hist.applied \/ txn.phase = NB_EV_APPLY,
              made |-> Made]

Going(t) ==
  /\ txn' = t
  /\ hist' = [hist EXCEPT !.applied = @ \/ txn.phase = NB_EV_APPLY,
                          !.made = Made]

Advance(cb) ==
  LET ev == txn.phase
      i == txn.idx
      n == Len(txn.batch)
  IN /\ last' = [cb |-> cb, ev |-> ev, ret |-> ret', node |-> Target(Cur)]
     /\ CASE ev = NB_EV_VALIDATE /\ ret' # NB_OK -> Ended("aborted")
          [] ev = NB_EV_VALIDATE /\ ret' = NB_OK /\ i < n ->
               Going([txn EXCEPT !.idx = i + 1])
          [] ev = NB_EV_VALIDATE /\ ret' = NB_OK /\ i = n ->
               Going([txn EXCEPT !.phase = NB_EV_PREPARE, !.idx = 1])
          [] ev = NB_EV_PREPARE /\ ret' # NB_OK ->
               LET np == IF AbortsFailed THEN i ELSE i - 1
               IN IF np = 0 THEN Ended("aborted")
                  ELSE Going([txn EXCEPT !.phase = NB_EV_ABORT, !.idx = 1,
                                         !.nprep = np])
          [] ev = NB_EV_PREPARE /\ ret' = NB_OK /\ i < n ->
               Going([txn EXCEPT !.idx = i + 1, !.nprep = i])
          [] ev = NB_EV_PREPARE /\ ret' = NB_OK /\ i = n ->
               Going([txn EXCEPT !.phase = NB_EV_APPLY, !.idx = 1,
                                 !.nprep = i])
          [] ev = NB_EV_ABORT /\ i < txn.nprep ->
               Going([txn EXCEPT !.idx = i + 1])
          [] ev = NB_EV_ABORT /\ i >= txn.nprep -> Ended("aborted")
          [] ev = NB_EV_APPLY /\ i < n -> Going([txn EXCEPT !.idx = i + 1])
          [] ev = NB_EV_APPLY /\ i = n ->
               Going([txn EXCEPT !.phase = "FINISH",
                                 !.fin = FinishSet(tree, txn.batch)])
     /\ UNCHANGED <<scope, tree, pre, reader>>

\* A callback that runs in one step is not between two of its statements.
Coordinate(cb) == Advance(cb) /\ UNCHANGED wpc

Begin ==
  /\ txn.phase = "idle"
  /\ \E b \in Batches(tree, scope, MaxBatch, {}) \ {<<>>} :
       /\ txn' = [Idle EXCEPT !.phase = NB_EV_VALIDATE, !.batch = b,
                              !.idx = 1]
       /\ res' = [i \in 1..Len(b) |-> NoRes]
  /\ hist' = [outcome |-> "running", applied |-> FALSE, made |-> hist.made]
  /\ UNCHANGED <<scope, tree, ret, last, rip, fdtab, rnh, rdh, offh, strh,
                 entry, eng, memerr, pre, slog, reader, wpc>>

\* The candidate configuration replaces the running one; the nodes that
\* were deleted are destroyed, and the entry pointers they hold with them.
Commit ==
  /\ txn.phase = "FINISH"
  /\ txn.fin = {}
  /\ tree' = ApplyAll(tree, txn.batch)
  /\ entry' = [n \in ListNodes |-> IF n \in tree' THEN entry[n] ELSE NULL]
  /\ txn' = [Idle EXCEPT !.phase = "ended"]
  /\ hist' = [hist EXCEPT !.outcome = "committed"]
  /\ UNCHANGED <<scope, res, ret, last, rip, fdtab, rnh, rdh, offh, strh,
                 eng, memerr, pre, slog, reader, wpc>>

\* The transaction is over: its changes and their resources are dropped, and
\* the next one starts from the runtime model as it is now.
Settle ==
  /\ txn.phase = "ended"
  /\ txn' = Idle
  /\ res' = <<>>
  /\ ret' = NB_OK
  /\ last' = NoCall
  /\ pre' = RuntimeModel
  /\ slog' = NoSlog
  /\ hist' = [outcome |-> "none", applied |-> FALSE, made |-> hist.made]
  /\ UNCHANGED <<scope, tree, rip, fdtab, rnh, rdh, offh, strh, entry, eng,
                 memerr, reader, wpc>>

(***************************************************************************)
(* One action per callback of the table.                                   *)
(***************************************************************************)
cb_instance_create ==
  /\ Deliver("ripd_instance_create")
  /\ ripd_instance_create(txn.phase, Cur, txn.idx)
  /\ Coordinate("ripd_instance_create")

cb_instance_delete ==
  /\ Deliver("ripd_instance_delete")
  /\ ripd_instance_delete(txn.phase, Cur, txn.idx)
  /\ Coordinate("ripd_instance_delete")

cb_default_metric_modify ==
  /\ Deliver("ripd_instance_default_metric_modify")
  /\ ripd_instance_default_metric_modify(txn.phase, Cur, txn.idx)
  /\ Coordinate("ripd_instance_default_metric_modify")

cb_other_module_modify ==
  /\ Deliver("other_module_modify")
  /\ other_module_modify(txn.phase, Cur, txn.idx)
  /\ Coordinate("other_module_modify")

cb_distance_source_create ==
  /\ Deliver("ripd_instance_distance_source_create")
  /\ ripd_instance_distance_source_create(txn.phase, Cur, txn.idx)
  /\ Coordinate("ripd_instance_distance_source_create")

cb_distance_source_delete ==
  /\ Deliver("ripd_instance_distance_source_delete")
  /\ ripd_instance_distance_source_delete(txn.phase, Cur, txn.idx)
  /\ Coordinate("ripd_instance_distance_source_delete")

cb_distance_source_distance_modify ==
  /\ Deliver("ripd_instance_distance_source_distance_modify")
  /\ ripd_instance_distance_source_distance_modify(txn.phase, Cur, txn.idx)
  /\ Coordinate("ripd_instance_distance_source_distance_modify")

cb_distance_source_access_list_modify ==
  /\ Deliver("ripd_instance_distance_source_access_list_modify")
  /\ ripd_instance_distance_source_access_list_modify(txn.phase, Cur, txn.idx)
  /\ Coordinate("ripd_instance_distance_source_access_list_modify")

cb_distance_source_access_list_delete ==
  /\ Deliver("ripd_instance_distance_source_access_list_delete")
  /\ ripd_instance_distance_source_access_list_delete(txn.phase, Cur, txn.idx)
  /\ Coordinate("ripd_instance_distance_source_access_list_delete")

cb_offset_list_create ==
  /\ Deliver("ripd_instance_offset_list_create")
  /\ ripd_instance_offset_list_create(txn.phase, Cur, txn.idx)
  /\ Coordinate("ripd_instance_offset_list_create")

cb_offset_list_delete ==
  /\ Deliver("ripd_instance_offset_list_delete")
  /\ ripd_instance_offset_list_delete(txn.phase, Cur, txn.idx)
  /\ Coordinate("ripd_instance_offset_list_delete")

cb_offset_list_access_list_modify ==
  /\ Deliver("ripd_instance_offset_list_access_list_modify")
  /\ ripd_instance_offset_list_access_list_modify(txn.phase, Cur, txn.idx)
  /\ Coordinate("ripd_instance_offset_list_access_list_modify")

cb_offset_list_metric_modify ==
  /\ Deliver("ripd_instance_offset_list_metric_modify")
  /\ ripd_instance_offset_list_metric_modify(txn.phase, Cur, txn.idx)
  /\ Coordinate("ripd_instance_offset_list_metric_modify")

cb_allow_ecmp_modify ==
  /\ Deliver("ripd_instance_allow_ecmp_modify")
  /\ ripd_instance_allow_ecmp_modify(txn.phase, Cur, txn.idx)
  /\ Coordinate("ripd_instance_allow_ecmp_modify")

cb_default_information_originate_modify ==
  /\ Deliver("ripd_instance_default_information_originate_modify")
  /\ ripd_instance_default_information_originate_modify(txn.phase, Cur, txn.idx)
  /\ Coordinate("ripd_instance_default_information_originate_modify")

cb_distance_default_modify ==
  /\ Deliver("ripd_instance_distance_default_modify")
  /\ ripd_instance_distance_default_modify(txn.phase, Cur, txn.idx)
  /\ Coordinate("ripd_instance_distance_default_modify")

cb_version_receive_modify ==
  /\ Deliver("ripd_instance_version_receive_modify")
  /\ ripd_instance_version_receive_modify(txn.phase, Cur, txn.idx)
  /\ Coordinate("ripd_instance_version_receive_modify")

cb_version_send_modify ==
  /\ Deliver("ripd_instance_version_send_modify")
  /\ ripd_instance_version_send_modify(txn.phase, Cur, txn.idx)
  /\ Coordinate("ripd_instance_version_send_modify")

cb_explicit_neighbor_create ==
  /\ Deliver("ripd_instance_explicit_neighbor_create")
  /\ ripd_instance_explicit_neighbor_create(txn.phase, Cur, txn.idx)
  /\ Coordinate("ripd_instance_explicit_neighbor_create")

cb_explicit_neighbor_delete ==
  /\ Deliver("ripd_instance_explicit_neighbor_delete")
  /\ ripd_instance_explicit_neighbor_delete(txn.phase, Cur, txn.idx)
  /\ Coordinate("ripd_instance_explicit_neighbor_delete")

cb_network_create ==
  /\ Deliver("ripd_instance_network_create")
  /\ ripd_instance_network_create(txn.phase, Cur, txn.idx)
  /\ Coordinate("ripd_instance_network_create")

cb_network_delete ==
  /\ Deliver("ripd_instance_network_delete")
  /\ ripd_instance_network_delete(txn.phase, Cur, txn.idx)
  /\ Coordinate("ripd_instance_network_delete")

cb_interface_create ==
  /\ Deliver("ripd_instance_interface_create")
  /\ ripd_instance_interface_create(txn.phase, Cur, txn.idx)
  /\ Coordinate("ripd_instance_interface_create")

cb_interface_delete ==
  /\ Deliver("ripd_instance_interface_delete")
  /\ ripd_instance_interface_delete(txn.phase, Cur, txn.idx)
  /\ Coordinate("ripd_instance_interface_delete")

cb_static_route_create ==
  /\ Deliver("ripd_instance_static_route_create")
  /\ ripd_instance_static_route_create(txn.phase, Cur, txn.idx)
  /\ Coordinate("ripd_instance_static_route_create")

cb_static_route_delete ==
  /\ Deliver("ripd_instance_static_route_delete")
  /\ ripd_instance_static_route_delete(txn.phase, Cur, txn.idx)
  /\ Coordinate("ripd_instance_static_route_delete")

cb_passive_default_modify ==
  /\ Deliver("ripd_instance_passive_default_modify")
  /\ ripd_instance_passive_default_modify(txn.phase, Cur, txn.idx)
  /\ Coordinate("ripd_instance_passive_default_modify")

cb_passive_interface_create ==
  /\ Deliver("ripd_instance_passive_interface_create")
  /\ ripd_instance_passive_interface_create(txn.phase, Cur, txn.idx)
  /\ Coordinate("ripd_instance_passive_interface_create")

cb_passive_interface_delete ==
  /\ Deliver("ripd_instance_passive_interface_delete")
  /\ ripd_instance_passive_interface_delete(txn.phase, Cur, txn.idx)
  /\ Coordinate("ripd_instance_passive_interface_delete")

cb_non_passive_interface_create ==
  /\ Deliver("ripd_instance_non_passive_interface_create")
  /\ ripd_instance_non_passive_interface_create(txn.phase, Cur, txn.idx)
  /\ Coordinate("ripd_instance_non_passive_interface_create")

cb_non_passive_interface_delete ==
  /\ Deliver("ripd_instance_non_passive_interface_delete")
  /\ ripd_instance_non_passive_interface_delete(txn.phase, Cur, txn.idx)
  /\ Coordinate("ripd_instance_non_passive_interface_delete")

cb_redistribute_create ==
  /\ Deliver("ripd_instance_redistribute_create")
  /\ ripd_instance_redistribute_create(txn.phase, Cur, txn.idx)
  /\ Coordinate("ripd_instance_redistribute_create")

cb_redistribute_delete ==
  /\ Deliver("ripd_instance_redistribute_delete")
  /\ ripd_instance_redistribute_delete(txn.phase, Cur, txn.idx)
  /\ Coordinate("ripd_instance_redistribute_delete")

cb_redistribute_route_map_modify ==
  /\ Deliver("ripd_instance_redistribute_route_map_modify")
  /\ ripd_instance_redistribute_route_map_modify(txn.phase, Cur, txn.idx)
  /\ Coordinate("ripd_instance_redistribute_route_map_modify")

cb_redistribute_route_map_delete ==
  /\ Deliver("ripd_instance_redistribute_route_map_delete")
  /\ ripd_instance_redistribute_route_map_delete(txn.phase, Cur, txn.idx)
  /\ Coordinate("ripd_instance_redistribute_route_map_delete")

cb_redistribute_metric_modify ==
  /\ Deliver("ripd_instance_redistribute_metric_modify")
  /\ ripd_instance_redistribute_metric_modify(txn.phase, Cur, txn.idx)
  /\ Coordinate("ripd_instance_redistribute_metric_modify")

cb_redistribute_metric_delete ==
  /\ Deliver("ripd_instance_redistribute_metric_delete")
  /\ ripd_instance_redistribute_metric_delete(txn.phase, Cur, txn.idx)
  /\ Coordinate("ripd_instance_redistribute_metric_delete")

cb_timers_flush_interval_modify ==
  /\ Deliver("ripd_instance_timers_flush_interval_modify")
  /\ ripd_instance_timers_flush_interval_modify(txn.phase, Cur, txn.idx)
  /\ Coordinate("ripd_instance_timers_flush_interval_modify")

cb_timers_holddown_interval_modify ==
  /\ Deliver("ripd_instance_timers_holddown_interval_modify")
  /\ ripd_instance_timers_holddown_interval_modify(txn.phase, Cur, txn.idx)
  /\ Coordinate("ripd_instance_timers_holddown_interval_modify")

cb_timers_update_interval_modify ==
  /\ Deliver("ripd_instance_timers_update_interval_modify")
  /\ ripd_instance_timers_update_interval_modify(txn.phase, Cur, txn.idx)
  /\ Coordinate("ripd_instance_timers_update_interval_modify")

cb_iface_split_horizon_modify ==
  /\ Deliver("lib_interface_rip_split_horizon_modify")
  /\ lib_interface_rip_split_horizon_modify(txn.phase, Cur, txn.idx)
  /\ Coordinate("lib_interface_rip_split_horizon_modify")

cb_iface_v2_broadcast_modify ==
  /\ Deliver("lib_interface_rip_v2_broadcast_modify")
  /\ lib_interface_rip_v2_broadcast_modify(txn.phase, Cur, txn.idx)
  /\ Coordinate("lib_interface_rip_v2_broadcast_modify")

cb_iface_version_receive_modify ==
  /\ Deliver("lib_interface_rip_version_receive_modify")
  /\ lib_interface_rip_version_receive_modify(txn.phase, Cur, txn.idx)
  /\ Coordinate("lib_interface_rip_version_receive_modify")

cb_iface_version_send_modify ==
  /\ Deliver("lib_interface_rip_version_send_modify")
  /\ lib_interface_rip_version_send_modify(txn.phase, Cur, txn.idx)
  /\ Coordinate("lib_interface_rip_version_send_modify")

cb_iface_authentication_scheme_mode_modify ==
  /\ Deliver("lib_interface_rip_authentication_scheme_mode_modify")
  /\ lib_interface_rip_authentication_scheme_mode_modify(txn.phase, Cur, txn.idx)
  /\ Coordinate("lib_interface_rip_authentication_scheme_mode_modify")

cb_iface_authentication_scheme_md5_auth_length_modify ==
  /\ Deliver("lib_interface_rip_authentication_scheme_md5_auth_length_modify")
  /\ lib_interface_rip_authentication_scheme_md5_auth_length_modify(txn.phase, Cur, txn.idx)
  /\ Coordinate("lib_interface_rip_authentication_scheme_md5_auth_length_modify")

cb_iface_authentication_scheme_md5_auth_length_delete ==
  /\ Deliver("lib_interface_rip_authentication_scheme_md5_auth_length_delete")
  /\ lib_interface_rip_authentication_scheme_md5_auth_length_delete(txn.phase, Cur, txn.idx)
  /\ Coordinate("lib_interface_rip_authentication_scheme_md5_auth_length_delete")

cb_iface_authentication_password_modify ==
  /\ Deliver("lib_interface_rip_authentication_password_modify")
  /\ lib_interface_rip_authentication_password_modify(txn.phase, Cur, txn.idx)
  /\ Coordinate("lib_interface_rip_authentication_password_modify")

cb_iface_authentication_password_delete ==
  /\ Deliver("lib_interface_rip_authentication_password_delete")
  /\ lib_interface_rip_authentication_password_delete(txn.phase, Cur, txn.idx)
  /\ Coordinate("lib_interface_rip_authentication_password_delete")

cb_iface_authentication_key_chain_modify ==
  /\ Deliver("lib_interface_rip_authentication_key_chain_modify")
  /\ lib_interface_rip_authentication_key_chain_modify(txn.phase, Cur, txn.idx)
  /\ Coordinate("lib_interface_rip_authentication_key_chain_modify")

cb_iface_authentication_key_chain_delete ==
  /\ Deliver("lib_interface_rip_authentication_key_chain_delete")
  /\ lib_interface_rip_authentication_key_chain_delete(txn.phase, Cur, txn.idx)
  /\ Coordinate("lib_interface_rip_authentication_key_chain_delete")

\* apply_finish callbacks: delivered once all changes are applied.
FinishCall(cb, f) ==
  /\ txn' = [txn EXCEPT !.fin = @ \ {f}]
  /\ last' = [cb |-> cb, ev |-> "FINISH", ret |-> NB_OK,
              node |-> Node(cb, f.a, 0)]
  /\ ret' = NB_OK
  /\ UNCHANGED <<scope, tree, pre, hist, reader, wpc>>

cb_timers_apply_finish ==
  /\ txn.phase = "FINISH"
  /\ \E f \in txn.fin :
       /\ f.cb = "ripd_instance_timers_apply_finish"
       /\ ripd_instance_timers_apply_finish(f)
       /\ FinishCall(f.cb, f)

cb_redistribute_apply_finish ==
  /\ txn.phase = "FINISH"
  /\ \E f \in txn.fin :
       /\ f.cb = "ripd_instance_redistribute_apply_finish"
       /\ ripd_instance_redistribute_apply_finish(f)
       /\ UNCHANGED memerr
       /\ FinishCall(f.cb, f)

\* apply_finish delivered to a subtree none of whose nodes changed in this
\* transaction, any number of times up to MaxFinish.
FinishAgain(cb, f) ==
  /\ txn.phase = "FINISH"
  /\ txn.fin = {}
  /\ txn.nfin[cb] < MaxFinish
  /\ \A g \in FinishSet(tree, txn.batch) : g.cb # cb
  /\ txn' = [txn EXCEPT !.nfin[cb] = @ + 1]
  /\ last' = [cb |-> cb, ev |-> "FINISH", ret |-> NB_OK,
              node |-> Node(cb, f.a, 0)]
  /\ ret' = NB_OK
  /\ UNCHANGED <<scope, tree, pre, hist, reader, wpc>>

again_timers_apply_finish ==
  /\ InstanceNode \in ApplyAll(tree, txn.batch)
  /\ LET f == [cb |-> "ripd_instance_timers_apply_finish", a |-> 0]
     IN /\ FinishAgain(f.cb, f)
        /\ ripd_instance_timers_apply_finish(f)

again_redistribute_apply_finish ==
  \E t \in Protos :
    /\ Node("redistribute", t, 0) \in ApplyAll(tree, txn.batch)
    /\ LET f == [cb |-> "ripd_instance_redistribute_apply_finish", a |-> t]
       IN /\ FinishAgain(f.cb, f)
          /\ ripd_instance_redistribute_apply_finish(f)
          /\ UNCHANGED memerr

\* Time passes between transactions: the update timer (engine) counts down,
\* and when it expires rip_update() runs and arms it again.
Tick ==
  /\ txn.phase = "idle"
  /\ rip.up
  /\ rip' = [rip EXCEPT !.t_update = IF @ > 0 THEN @ - 1
                                     ELSE rip.update_time]
  /\ pre' = [pre EXCEPT !.rip = rip']
  /\ UNCHANGED <<scope, tree, txn, res, ret, last, fdtab, rnh, rdh, offh,
                 strh, entry, eng, memerr, slog, hist, reader, wpc>>

(***************************************************************************)
(* The operational-data callbacks (get_next, get_keys, lookup_entry and    *)
(* get_elem of the state lists) and the clear-rip-route rpc.  A list entry *)
(* pointer is the entry's key, NULL is the end of the list.  The consumer  *)
(* that calls them (lib/northbound.c, modelled from the interface          *)
(* description) iterates with get_next from NULL, passing back the entry   *)
(* it was given, and may call at any point of a transaction.               *)
(***************************************************************************)
\* A faulty get_next: it returns the first neighbor whatever entry it is
\* given, so an enumeration never gets past it.
neighbor_get_next_from_the_start(xpath, list_entry) ==
  IF eng.neighbors = {} THEN NULL ELSE Min(eng.neighbors)

ripd_state_neighbors_neighbor_get_next(xpath, list_entry) == NULL

ripd_state_neighbors_neighbor_get_keys(list_entry, keys) ==
  [rc |-> NB_OK, keys |-> keys]

ripd_state_neighbors_neighbor_lookup_entry(keys) == NULL

ripd_state_neighbors_neighbor_address_get_elem(xpath, list_entry) == NULL

ripd_state_neighbors_neighbor_last_update_get_elem(xpath, list_entry) == NULL

ripd_state_neighbors_neighbor_bad_packets_rcvd_get_elem(xpath, list_entry) ==
  NULL

ripd_state_neighbors_neighbor_bad_routes_rcvd_get_elem(xpath, list_entry) ==
  NULL

ripd_state_routes_route_get_next(xpath, list_entry) == NULL

ripd_state_routes_route_get_keys(list_entry, keys) ==
  [rc |-> NB_OK, keys |-> keys]

ripd_state_routes_route_lookup_entry(keys) == NULL

ripd_state_routes_route_prefix_get_elem(xpath, list_entry) == NULL

ripd_state_routes_route_next_hop_get_elem(xpath, list_entry) == NULL

ripd_state_routes_route_interface_get_elem(xpath, list_entry) == NULL

ripd_state_routes_route_metric_get_elem(xpath, list_entry) == NULL

clear_rip_route_rpc(xpath, input, output) == [rc |-> NB_OK, output |-> output]

\* The live entries of a state list: the neighbors and the routes the
\* engine holds (engine).
Entries(list) == IF list = "neighbors" THEN eng.neighbors ELSE eng.routes

\* What a call of the read path leaves alone: everything but the
\* consumer's own record of the call.
ReadFrame ==
  UNCHANGED <<scope, tree, txn, res, ret, last, rip, fdtab, rnh, rdh, offh,
              strh, entry, eng, memerr, pre, slog, hist, wpc>>

\* One step of an enumeration (consumer): get_next with the entry returned
\* by the step before, or with NULL to start.  n counts the entries
\* returned; the consumer gives up one entry past the length of the list.
Enumerating(list) ==
  reader.op = "get_next" /\ reader.list = list /\ reader.out # NULL

IterateStep(list, list_entry, out) ==
  LET n0 == IF list_entry = NULL THEN 0 ELSE reader.n
      seen0 == IF list_entry = NULL THEN {} ELSE reader.seen
  IN /\ n0 <= Cardinality(Entries(list))
     /\ reader' = [NoRead EXCEPT !.op = "get_next", !.list = list,
                                 !.arg = list_entry, !.out = out,
                                 !.n = IF out = NULL THEN n0 ELSE n0 + 1,
                                 !.seen = IF out = NULL THEN seen0
                                          ELSE seen0 \cup {out},
                                 !.again = out \in seen0]

\* A faulty get_next: it unlinks the neighbor it returns from the list.
neighbors_get_next_unlinking ==
  /\ eng.neighbors # {}
  /\ reader' = [NoRead EXCEPT !.op = "get_next", !.list = "neighbors",
                              !.out = Min(eng.neighbors), !.n = 1,
                              !.seen = {Min(eng.neighbors)}]
  /\ eng' = [eng EXCEPT !.neighbors = @ \ {Min(eng.neighbors)}]
  /\ UNCHANGED <<scope, tree, txn, res, ret, last, rip, fdtab, rnh, rdh, offh,
                 strh, entry, memerr, pre, slog, hist, wpc>>

neighbors_get_next ==
  /\ \E list_entry \in {NULL} \cup
                       {e \in Prefixes : Enumerating("neighbors")
                                         /\ e = reader.out} :
       IterateStep("neighbors", list_entry,
                   ripd_state_neighbors_neighbor_get_next("neighbors",
                                                          list_entry))
  /\ ReadFrame

routes_get_next ==
  /\ \E list_entry \in {NULL} \cup
                       {e \in Prefixes : Enumerating("routes")
                                         /\ e = reader.out} :
       IterateStep("routes", list_entry,
                   ripd_state_routes_route_get_next("routes", list_entry))
  /\ ReadFrame

\* get_keys on an entry of the list; the caller's key buffer starts empty.
neighbors_get_keys ==
  /\ \E list_entry \in Entries("neighbors") :
       LET r == ripd_state_neighbors_neighbor_get_keys(list_entry, <<>>)
       IN reader' = [NoRead EXCEPT !.op = "get_keys", !.list = "neighbors",
                                   !.arg = list_entry, !.rc = r.rc,
                                   !.keys = r.keys]
  /\ ReadFrame

routes_get_keys ==
  /\ \E list_entry \in Entries("routes") :
       LET r == ripd_state_routes_route_get_keys(list_entry, <<>>)
       IN reader' = [NoRead EXCEPT !.op = "get_keys", !.list = "routes",
                                   !.arg = list_entry, !.rc = r.rc,
                                   !.keys = r.keys]
  /\ ReadFrame

\* lookup_entry with the key of any address or prefix.
neighbors_lookup_entry ==
  /\ \E k \in Prefixes :
       reader' = [NoRead EXCEPT
                    !.op = "lookup_entry", !.list = "neighbors",
                    !.keys = <<k>>,
                    !.out = ripd_state_neighbors_neighbor_lookup_entry(<<k>>)]
  /\ ReadFrame

routes_lookup_entry ==
  /\ \E k \in Prefixes :
       reader' = [NoRead EXCEPT
                    !.op = "lookup_entry", !.list = "routes",
                    !.keys = <<k>>,
                    !.out = ripd_state_routes_route_lookup_entry(<<k>>)]
  /\ ReadFrame

\* get_elem of each leaf of an entry of the list.
NeighborLeaves == {"address", "last-update", "bad-packets-rcvd",
                   "bad-routes-rcvd"}
RouteLeaves == {"prefix", "next-hop", "interface", "metric"}

neighbors_get_elem ==
  /\ \E leaf \in NeighborLeaves, e \in Entries("neighbors") :
       reader' = [NoRead EXCEPT
         !.op = leaf, !.list = "neighbors", !.arg = e,
         !.out =
           CASE leaf = "address" ->
                  ripd_state_neighbors_neighbor_address_get_elem(leaf, e)
             [] leaf = "last-update" ->
                  ripd_state_neighbors_neighbor_last_update_get_elem(leaf, e)
             [] leaf = "bad-packets-rcvd" ->
                  ripd_state_neighbors_neighbor_bad_packets_rcvd_get_elem(
                    leaf, e)
             [] leaf = "bad-routes-rcvd" ->
                  ripd_state_neighbors_neighbor_bad_routes_rcvd_get_elem(
                    leaf, e)]
  /\ ReadFrame

routes_get_elem ==
  /\ \E leaf \in RouteLeaves, e \in Entries("routes") :
       reader' = [NoRead EXCEPT
         !.op = leaf, !.list = "routes", !.arg = e,
         !.out =
           CASE leaf = "prefix" ->
                  ripd_state_routes_route_prefix_get_elem(leaf, e)
             [] leaf = "next-hop" ->
                  ripd_state_routes_route_next_hop_get_elem(leaf, e)
             [] leaf = "interface" ->
                  ripd_state_routes_route_interface_get_elem(leaf, e)
             [] leaf = "metric" ->
                  ripd_state_routes_route_metric_get_elem(leaf, e)]
  /\ ReadFrame

\* A faulty rpc: it clears the routes through the global pointer rip without
\* testing it.
rpc_clearing_through_rip ==
  /\ reader' = [NoRead EXCEPT !.op = "rpc", !.list = "clear-rip-route"]
  /\ IF rip.up
     THEN /\ eng' = [eng EXCEPT !.routes = {}]
          /\ UNCHANGED memerr
     ELSE /\ memerr' = memerr \cup {"null_deref"}
          /\ UNCHANGED eng
  /\ UNCHANGED <<scope, tree, txn, res, ret, last, rip, fdtab, rnh, rdh, offh,
                 strh, entry, pre, slog, hist, wpc>>

\* The rpc, invoked at any time (coordinator), with an empty input list.
rpc_clear_rip_route ==
  /\ LET r == clear_rip_route_rpc("clear-rip-route", <<>>, <<>>)
     IN reader' = [NoRead EXCEPT !.op = "rpc", !.list = "clear-rip-route",
                                 !.rc = r.rc, !.keys = r.output]
  /\ ReadFrame

ReadActions ==
  \/ neighbors_get_next
  \/ neighbors_get_keys
  \/ neighbors_lookup_entry
  \/ neighbors_get_elem
  \/ routes_get_next
  \/ routes_get_keys
  \/ routes_lookup_entry
  \/ routes_get_elem

\* Between transactions the protocol learns a route from a neighbor and
\* enters it in the instance's route table (engine), the table the static
\* routes are entered in.
rip_route_learned ==
  /\ txn.phase = "idle"
  /\ rip.up
  /\ \E p \in Prefixes \ eng.routes :
       eng' = [eng EXCEPT !.routes = @ \cup {p}]
  /\ pre' = [pre EXCEPT !.eng = eng']
  /\ UNCHANGED <<scope, tree, txn, res, ret, last, rip, fdtab, rnh, rdh, offh,
                 strh, entry, memerr, slog, hist, reader, wpc>>

(***************************************************************************)
(* The APPLY of the route-map and metric handlers of a redistribute entry, *)
(* one step for each statement that writes, so that what runs beside the   *)
(* handler sees what the handler has written so far.  wpc names the next   *)
(* statement by its line and keeps the entry's fields as the handler found *)
(* them.  On the other events the handler runs in one step.                *)
(***************************************************************************)
StmtFrame ==
  UNCHANGED <<scope, tree, txn, res, ret, last, fdtab, rnh, rdh, offh, entry,
              eng, pre, slog, hist, reader>>

\* 589-590: if (rip->route_map[type].name) free(rip->route_map[type].name);
route_map_modify_589 ==
  /\ Deliver("ripd_instance_redistribute_route_map_modify")
  /\ wpc = NoStep
  /\ IF txn.phase # NB_EV_APPLY \/ ~rip.up
     THEN /\ ripd_instance_redistribute_route_map_modify(txn.phase, Cur,
                                                         txn.idx)
          /\ Coordinate("ripd_instance_redistribute_route_map_modify")
     ELSE LET old == rip.route_map[Cur.a].name
          IN /\ strh' = IF old # NULL THEN free(strh, old, FreeStr) ELSE strh
             /\ memerr' = memerr \cup FreeErr(strh, old)
             /\ wpc' = [at |-> "route_map_modify:591",
                        old |-> rip.route_map[Cur.a]]
             /\ UNCHANGED rip
             /\ StmtFrame

\* 591: rip->route_map[type].name = strdup(rmap_name);
route_map_modify_591 ==
  /\ wpc.at = "route_map_modify:591"
  /\ LET new == strdup(strh, Cur.v)
     IN /\ strh' = new.h
        /\ rip' = [rip EXCEPT !.route_map[Cur.a].name = new.p]
  /\ wpc' = [wpc EXCEPT !.at = "route_map_modify:592"]
  /\ UNCHANGED memerr
  /\ StmtFrame

\* 592-594: rip->route_map[type].map = route_map_lookup_by_name(rmap_name);
\* return NB_OK;
route_map_modify_592 ==
  /\ wpc.at = "route_map_modify:592"
  /\ rip' = [rip EXCEPT
               !.route_map[Cur.a].map = route_map_lookup_by_name(Cur.v)]
  /\ Return(NB_OK)
  /\ UNCHANGED <<strh, memerr>>
  /\ RipFrame
  /\ Advance("ripd_instance_redistribute_route_map_modify")
  /\ wpc' = NoStep

\* 633: rip->route_map[type].metric_config = true;
metric_modify_633 ==
  /\ Deliver("ripd_instance_redistribute_metric_modify")
  /\ wpc = NoStep
  /\ IF txn.phase # NB_EV_APPLY \/ ~rip.up
     THEN /\ ripd_instance_redistribute_metric_modify(txn.phase, Cur, txn.idx)
          /\ Coordinate("ripd_instance_redistribute_metric_modify")
     ELSE /\ rip' = [rip EXCEPT !.route_map[Cur.a].metric_config = TRUE]
          /\ wpc' = [at |-> "metric_modify:634",
                     old |-> rip.route_map[Cur.a]]
          /\ UNCHANGED <<strh, memerr>>
          /\ StmtFrame

\* 634-636: rip->route_map[type].metric = metric; return NB_OK;
metric_modify_634 ==
  /\ wpc.at = "metric_modify:634"
  /\ rip' = [rip EXCEPT !.route_map[Cur.a].metric = Cur.v]
  /\ Return(NB_OK)
  /\ UNCHANGED <<strh, memerr>>
  /\ RipFrame
  /\ Advance("ripd_instance_redistribute_metric_modify")
  /\ wpc' = NoStep

\* What runs beside the handlers (the engine's redistribution, a consumer of
\* the instance's state) reads the route-map name and the metric of an
\* entry.  It records what it saw: whether the name it read was a string, no
\* string or a freed one, the metric with its flag, and for comparison the
\* (flag, metric) the entry had before the handler now running and has after
\* it.
PairOf(m) == <<m.metric_config, m.metric>>
rip_redistribute_reads ==
  /\ rip.up
  /\ \E t \in Protos :
       LET m == rip.route_map[t]
           writing == wpc.at # "none" /\ Cur.a = t
           before == IF writing THEN PairOf(wpc.old) ELSE PairOf(m)
           after == IF writing /\ wpc.at = "metric_modify:634"
                    THEN <<TRUE, Cur.v>> ELSE PairOf(m)
       IN reader' = [NoRead EXCEPT
                       !.op = "observe", !.list = "redistribute", !.arg = t,
                       !.keys = <<IF m.name = NULL THEN "none"
                                  ELSE IF Live(strh, m.name) THEN "string"
                                  ELSE "freed",
                                  m.metric_config, m.metric>>,
                       !.seen = {before, after}]
  /\ ReadFrame

CoordinatorActions == Begin \/ Commit \/ Settle
InstanceActions == cb_instance_create \/ cb_instance_delete
InstActions ==
  \/ cb_default_metric_modify
  \/ cb_other_module_modify
  \/ cb_allow_ecmp_modify
  \/ cb_default_information_originate_modify
  \/ cb_distance_default_modify
  \/ cb_version_receive_modify
  \/ cb_version_send_modify

ListActions ==
  \/ cb_explicit_neighbor_create
  \/ cb_explicit_neighbor_delete
  \/ cb_network_create
  \/ cb_network_delete
  \/ cb_interface_create
  \/ cb_interface_delete
  \/ cb_static_route_create
  \/ cb_static_route_delete

PassiveActions ==
  \/ cb_passive_default_modify
  \/ cb_passive_interface_create
  \/ cb_passive_interface_delete
  \/ cb_non_passive_interface_create
  \/ cb_non_passive_interface_delete

RedistActions ==
  \/ cb_redistribute_create
  \/ cb_redistribute_delete
  \/ cb_redistribute_route_map_modify
  \/ cb_redistribute_route_map_delete
  \/ cb_redistribute_metric_modify
  \/ cb_redistribute_metric_delete
  \/ cb_redistribute_apply_finish

TimerActions ==
  \/ cb_timers_flush_interval_modify
  \/ cb_timers_holddown_interval_modify
  \/ cb_timers_update_interval_modify
  \/ cb_timers_apply_finish

IfaceActions ==
  \/ cb_iface_split_horizon_modify
  \/ cb_iface_v2_broadcast_modify
  \/ cb_iface_version_receive_modify
  \/ cb_iface_version_send_modify
  \/ cb_iface_authentication_scheme_mode_modify
  \/ cb_iface_authentication_scheme_md5_auth_length_modify
  \/ cb_iface_authentication_scheme_md5_auth_length_delete
  \/ cb_iface_authentication_password_modify
  \/ cb_iface_authentication_password_delete
  \/ cb_iface_authentication_key_chain_modify
  \/ cb_iface_authentication_key_chain_delete


DistActions ==
  \/ cb_distance_source_create
  \/ cb_distance_source_delete
  \/ cb_distance_source_distance_modify
  \/ cb_distance_source_access_list_modify
  \/ cb_distance_source_access_list_delete

OffActions ==
  \/ cb_offset_list_create
  \/ cb_offset_list_delete
  \/ cb_offset_list_access_list_modify
  \/ cb_offset_list_metric_modify

Init == InitFor(Scopes)
Next ==
  \/ CoordinatorActions
  \/ InstanceActions
  \/ InstActions
  \/ DistActions
  \/ OffActions
  \/ ListActions
  \/ PassiveActions
  \/ RedistActions
  \/ TimerActions
  \/ IfaceActions
Spec == Init /\ [][Next]_vars

(***************************************************************************)
(* Runs that edit only the entries with a runtime object of their own and  *)
(* the leaf-lists.                                                         *)
(***************************************************************************)
InitEntries == InitFor({"dist", "off", "lists"})
NextEntries ==
  \/ CoordinatorActions
  \/ InstanceActions
  \/ cb_other_module_modify
  \/ DistActions
  \/ OffActions
  \/ ListActions
SpecEntries == InitEntries /\ [][NextEntries]_vars

(***************************************************************************)
(* Runs in which the coordinator delivers ABORT to every change that was   *)
(* sent PREPARE, the one that failed included.                             *)
(***************************************************************************)
InitAbortAny == InitFor({"abort-any"})
NextAbortAny ==
  \/ CoordinatorActions
  \/ InstanceActions
  \/ cb_default_metric_modify
  \/ cb_other_module_modify
SpecAbortAny == InitAbortAny /\ [][NextAbortAny]_vars

(***************************************************************************)
(* Runs in which the coordinator delivers ABORT a second time to the       *)
(* instance-create change, and the process may open a descriptor for       *)
(* another change in between.                                              *)
(***************************************************************************)
\* The instance-create change of the attempt has been aborted once and the
\* coordinator still holds its resource.
AbortedOnce ==
  /\ txn.phase = "ended"
  /\ last.cb = "ripd_instance_create"
  /\ last.ev = NB_EV_ABORT
  /\ slog.closed = 1
  /\ slog.by \in DOMAIN res

\* ABORT of the instance-create change, delivered again with the same
\* resource.
abort_again_instance_create ==
  /\ AbortedOnce
  /\ ripd_instance_create(NB_EV_ABORT, last.node, slog.by)
  /\ last' = [last EXCEPT !.ret = ret']
  /\ UNCHANGED <<scope, tree, txn, pre, hist, reader, wpc>>

\* socket() on behalf of another change: the lowest free descriptor.
socket_for_another_change ==
  /\ AbortedOnce
  /\ \E f \in rip_create_socket \ {NoFd} :
       fdtab' = [fdtab EXCEPT ![f] = "open"]
  /\ UNCHANGED <<scope, tree, txn, res, ret, last, rip, rnh, rdh, offh, strh,
                 entry, eng, memerr, pre, slog, hist, reader, wpc>>

\* The other change gives its descriptor back.
close_by_another_change ==
  /\ txn.phase = "idle"
  /\ \E f \in Fds \ {0} :
       /\ fdtab[f] = "open"
       /\ ~(rip.up /\ rip.sock = f)
       /\ fdtab' = [fdtab EXCEPT ![f] = "closed"]
  /\ UNCHANGED <<scope, tree, txn, res, ret, last, rip, rnh, rdh, offh, strh,
                 entry, eng, memerr, pre, slog, hist, reader, wpc>>

InitAbortTwice == InitFor({"abort-twice"})
NextAbortTwice ==
  \/ CoordinatorActions
  \/ InstanceActions
  \/ cb_default_metric_modify
  \/ cb_other_module_modify
  \/ abort_again_instance_create
  \/ socket_for_another_change
  \/ close_by_another_change
SpecAbortTwice == InitAbortTwice /\ [][NextAbortTwice]_vars

(***************************************************************************)
(* Runs in which time passes and the coordinator delivers apply_finish to  *)
(* subtrees without a change.                                              *)
(***************************************************************************)
InitFinish == InitFor({"finish"})
NextFinish ==
  \/ CoordinatorActions
  \/ InstanceActions
  \/ cb_redistribute_create
  \/ cb_redistribute_delete
  \/ cb_redistribute_route_map_modify
  \/ cb_redistribute_route_map_delete
  \/ cb_redistribute_metric_modify
  \/ cb_redistribute_metric_delete
  \/ cb_redistribute_apply_finish
  \/ cb_timers_update_interval_modify
  \/ cb_timers_apply_finish
  \/ again_timers_apply_finish
  \/ again_redistribute_apply_finish
  \/ Tick
SpecFinish == InitFinish /\ [][NextFinish]_vars

(***************************************************************************)
(* Runs in which the consumer of operational data and the rpc are invoked  *)
(* at any point of the transactions that edit the explicit neighbors and   *)
(* the static routes.                                                      *)
(***************************************************************************)
InitRead == InitFor({"read"})
NextRead ==
  \/ CoordinatorActions
  \/ InstanceActions
  \/ cb_explicit_neighbor_create
  \/ cb_explicit_neighbor_delete
  \/ cb_static_route_create
  \/ cb_static_route_delete
  \/ ReadActions
  \/ rpc_clear_rip_route
SpecRead == InitRead /\ [][NextRead]_vars

(***************************************************************************)
(* Runs that edit the nodes whose APPLY calls the routing engine (static   *)
(* routes, the default route, the non-passive interfaces), while the       *)
(* protocol learns routes.                                                 *)
(***************************************************************************)
InitEngine == InitFor({"engine"})
NextEngine ==
  \/ CoordinatorActions
  \/ InstanceActions
  \/ cb_static_route_create
  \/ cb_static_route_delete
  \/ cb_default_information_originate_modify
  \/ cb_non_passive_interface_create
  \/ cb_non_passive_interface_delete
  \/ rip_route_learned
SpecEngine == InitEngine /\ [][NextEngine]_vars

(***************************************************************************)
(* Runs that edit the nodes whose handlers are not implemented: the        *)
(* instance's version leaves and the per-interface nodes.                  *)
(***************************************************************************)
InitIface == InitFor({"iface"})
NextIface ==
  \/ CoordinatorActions
  \/ InstanceActions
  \/ cb_version_receive_modify
  \/ cb_version_send_modify
  \/ IfaceActions
SpecIface == InitIface /\ [][NextIface]_vars

(***************************************************************************)
(* Runs in which the route-map and metric handlers of the redistribute     *)
(* entries write statement by statement, and a reader runs beside them.    *)
(***************************************************************************)
InitStatements == InitFor({"stmt"})
NextStatements ==
  \/ CoordinatorActions
  \/ InstanceActions
  \/ cb_redistribute_create
  \/ cb_redistribute_apply_finish
  \/ route_map_modify_589
  \/ route_map_modify_591
  \/ route_map_modify_592
  \/ metric_modify_633
  \/ metric_modify_634
  \/ rip_redistribute_reads
SpecStatements == InitStatements /\ [][NextStatements]_vars

(***************************************************************************)
(* Properties.                                                             *)
(***************************************************************************)
Aborted == txn.phase = "ended" /\ hist.outcome = "aborted"
TableCallbacks == {q.cb : q \in frr_ripd_info}

\* C1: when a transaction ends aborted (a change failed VALIDATE or
\* PREPARE), no APPLY has run in it and, once the ABORT round is over, the
\* runtime model (the instance and its fields, the distance table, the
\* offset lists, the entry bindings, the routing engine's tables and the
\* descriptors) is what it was before the transaction began.
C1_AbortRestoresRuntimeModel ==
  Aborted => (~hist.applied /\ RuntimeModel = pre)

\* An aborted transaction in which a change of a live instance went through
\* PREPARE and ABORT.
C1_AbortedAfterPrepare ==
  /\ Aborted
  /\ last.ev = NB_EV_ABORT
  /\ last.cb = "ripd_instance_default_metric_modify"
  /\ rip.up

\* C2: the socket that PREPARE of the instance-create change acquires is,
\* when the transaction attempt ends, either consumed once by that change's
\* APPLY (the created instance owns it, and it is open) or closed once by
\* that change's ABORT; never both, never neither, never touched by another
\* change; and when PREPARE fails for lack of a socket the instance is
\* absent and no socket is open.
Sockets == Fds \ {0}
C2_SocketConsumedOrClosedOnce ==
  /\ ~slog.stray
  /\ slog.consumed + slog.closed <= 1
  /\ (txn.phase = "ended" /\ slog.acq # NoFd) =>
       /\ slog.consumed + slog.closed = 1
       /\ slog.consumed = 1 =>
            (rip.up /\ rip.sock = slog.acq /\ fdtab[slog.acq] = "open")
       /\ slog.closed = 1 => (~rip.up /\ fdtab[slog.acq] = "closed")
  /\ (txn.phase = "ended" /\ slog.failed) =>
       (~rip.up /\ \A f \in Sockets : fdtab[f] = "closed")
  /\ txn.phase \in {"idle", "ended"} =>
       \A f \in Sockets : fdtab[f] = "open" => (rip.up /\ rip.sock = f)

\* A transaction that ended with the acquired socket closed by ABORT.
C2_SocketClosedByAbort ==
  /\ txn.phase = "ended"
  /\ slog.acq # NoFd
  /\ slog.closed = 1
  /\ slog.consumed = 0

\* C3: ABORT of the instance-create change, delivered when PREPARE stored no
\* handle for this change, closes no descriptor and returns success.
C3_AbortWithoutHandleClosesNothing ==
  [][(/\ txn.phase = NB_EV_ABORT
      /\ Cur.cb = "ripd_instance_create"
      /\ ~res[txn.idx].stored)
       => (fdtab' = fdtab /\ ret' = NB_OK)]_vars

\* C4: a VALIDATE call of any handler of the table, and a PREPARE or ABORT
\* call of any handler but instance create, leaves the runtime model, the
\* entry bindings, the resource handle and the descriptors as they were.
FrameCall ==
  /\ txn.phase \in {NB_EV_VALIDATE, NB_EV_PREPARE, NB_EV_ABORT}
  /\ Cur.cb \in TableCallbacks
  /\ txn.phase = NB_EV_VALIDATE \/ Cur.cb # "ripd_instance_create"
C4_ValidatePrepareAbortFrame ==
  [][FrameCall =>
       (/\ RuntimeModel' = RuntimeModel
        /\ res' = res
        /\ memerr' = memerr
        /\ ret' = NB_OK)]_vars

\* PREPARE has been delivered to the create handler of a distance source.
C4_PrepareDelivered ==
  /\ last.ev = NB_EV_PREPARE
  /\ last.cb = "ripd_instance_distance_source_create"
  /\ txn.phase \in Events

\* The list entries whose create handler makes a runtime object.
BoundKinds == {"source", "offset-list"}
IsBound(n) == n \in ListNodes /\ n.k \in BoundKinds

\* The binding e of node n refers to a live object made for n, in the heaps
\* rn, rd and off.
RefersToLive(n, e, rn, rd, off) ==
  IF n.k = "source"
  THEN /\ Live(rn, e)
       /\ rn[e].p = n.a
       /\ Live(rd, rn[e].info)
  ELSE /\ Live(off, e)
       /\ off[e].ifname = n.a
EntryLive(n) == RefersToLive(n, entry[n], rnh, rdh, offh)
Dangling(e, rn, rd, off) ==
  {n \in ListNodes :
     n.k \in BoundKinds /\ e[n] # NULL /\ ~RefersToLive(n, e[n], rn, rd, off)}

ApplyOf(cbs) == txn.phase = NB_EV_APPLY /\ Cur.cb \in cbs
CreateCallbacks == {"ripd_instance_distance_source_create",
                    "ripd_instance_offset_list_create"}
DeleteCallbacks == {"ripd_instance_distance_source_delete",
                    "ripd_instance_offset_list_delete"}

\* C5 (as the code has it): between transactions, every distance-source and
\* offset-list entry of the configuration has one binding, to a live object
\* of its own made for it; a node that is not in the configuration has
\* none, and neither has an entry of any other list (network, neighbor,
\* interface, static route, passive interface, redistribute); and a binding
\* is set by the create handler of its node only.
BindingsMatchTree ==
  txn.phase = "idle" =>
    /\ \A n \in ListNodes :
         IF n \in tree /\ IsBound(n)
         THEN entry[n] # NULL /\ EntryLive(n)
         ELSE entry[n] = NULL
    /\ \A n, m \in ListNodes \cap tree :
         (n # m /\ n.k = m.k /\ IsBound(n)) => entry[n] # entry[m]
BoundByCreate ==
  \A n \in ListNodes :
    (entry'[n] # entry[n] /\ entry'[n] # NULL) =>
      (ApplyOf(CreateCallbacks) /\ Target(Cur) = n)
AsCreated(n) ==
  IF n.k = "source"
  THEN rdh[rnh[entry[n]].info] = [FreeRd EXCEPT !.st = "live"]
  ELSE offh[entry[n]] = [FreeOff EXCEPT !.st = "live", !.ifname = n.a]
\* The object of node n, bound to e in the heaps before the step, is free
\* after it.
Freed(n, e) ==
  IF n.k = "source"
  THEN ~Live(rnh', e) /\ ~Live(rdh', rnh[e].info)
  ELSE ~Live(offh', e)

\* C6: APPLY of delete on an entry that is as APPLY of create left it frees
\* the object, frees nothing twice, and leaves no binding that refers to a
\* freed object.
C6_DeleteAfterCreateLeavesNoBinding ==
  [][(/\ ApplyOf(DeleteCallbacks)
      /\ entry[Target(Cur)] # NULL
      /\ EntryLive(Target(Cur))
      /\ AsCreated(Target(Cur)))
       => (/\ Freed(Target(Cur), entry[Target(Cur)])
           /\ memerr' = memerr
           /\ Dangling(entry', rnh', rdh', offh') = {})]_vars

\* What of C6 the code does: the object is freed, once.
DeleteAfterCreateFreesOnce ==
  [][(/\ ApplyOf(DeleteCallbacks)
      /\ entry[Target(Cur)] # NULL
      /\ EntryLive(Target(Cur))
      /\ AsCreated(Target(Cur)))
       => (/\ Freed(Target(Cur), entry[Target(Cur)])
           /\ memerr' = memerr)]_vars

\* C7: an APPLY of a handler of a child (distance, access-list, metric) of
\* a bound entry changes no binding, and the entry resolves to the same
\* live object after it as before.
ChildCallbacks == {"ripd_instance_distance_source_distance_modify",
                   "ripd_instance_distance_source_access_list_modify",
                   "ripd_instance_distance_source_access_list_delete",
                   "ripd_instance_offset_list_access_list_modify",
                   "ripd_instance_offset_list_metric_modify"}
\* The list entry a change is about: its target, or the target's parent.
EntryOf(c) == IF Target(c) \in ListNodes THEN Target(c) ELSE Parent(Target(c))
C7_BindingStableAcrossChildEdits ==
  [][(ApplyOf(ChildCallbacks) /\ entry[EntryOf(Cur)] # NULL
      /\ EntryLive(EntryOf(Cur)))
       => (/\ entry' = entry
           /\ yang_dnode_get_entry(Target(Cur)) = entry[EntryOf(Cur)]
           /\ RefersToLive(EntryOf(Cur), entry'[EntryOf(Cur)], rnh', rdh',
                           offh')
           /\ EntryOf(Cur).k = "source" =>
                rnh'[entry[EntryOf(Cur)]].info = rnh[entry[EntryOf(Cur)]].info
           /\ memerr' = memerr)]_vars

\* The access-list of a bound distance source has just been replaced.
C7_AccessListEdited ==
  /\ last.ev = NB_EV_APPLY
  /\ last.cb = "ripd_instance_distance_source_access_list_modify"
  /\ txn.phase \in Events \cup {"FINISH"}
  /\ entry[Parent(last.node)] # NULL
  /\ Live(pre.rnh, entry[Parent(last.node)])
  /\ Live(pre.rdh, pre.rnh[entry[Parent(last.node)]].info)
  /\ pre.rdh[pre.rnh[entry[Parent(last.node)]].info].access_list # NULL

\* The other direction of an offset-list record.
Other(direct) ==
  IF direct = RIP_OFFSET_LIST_IN THEN RIP_OFFSET_LIST_OUT
  ELSE RIP_OFFSET_LIST_IN

Holders(s) ==
  {<<"distance", i>> : i \in {j \in RdIds : Live(rdh, j)
                                            /\ rdh[j].access_list = s}}
  \cup {<<"offset", x[1], x[2]>> :
          x \in {y \in OffIds \X Directions :
                   /\ Live(offh, y[1])
                   /\ offh[y[1]].alist_name[y[2]] = s}}
  \cup {<<"route-map", t>> : t \in {u \in Protos :
                                      rip.up /\ rip.route_map[u].name = s}}
StringsHeldOnce ==
  \A s \in StrIds : Live(strh, s) <=> Cardinality(Holders(s)) = 1

DistanceCallbacks == {"ripd_instance_distance_source_create",
                      "ripd_instance_distance_source_delete",
                      "ripd_instance_distance_source_distance_modify",
                      "ripd_instance_distance_source_access_list_modify",
                      "ripd_instance_distance_source_access_list_delete"}
AccessListCallbacks == {"ripd_instance_distance_source_access_list_modify",
                        "ripd_instance_distance_source_access_list_delete"}

\* What every APPLY on a distance source keeps: no string is leaked, freed
\* twice or freed unset; create binds a live object; the access-list
\* handlers resolve to it and leave it bound.
DistanceSourceSteps ==
  LET n == EntryOf(Cur)
  IN /\ memerr' = memerr
     /\ StringsHeldOnce'
     /\ Cur.cb = "ripd_instance_distance_source_create" =>
          (entry'[n] # NULL
           /\ RefersToLive(n, entry'[n], rnh', rdh', offh'))
     /\ Cur.cb \in AccessListCallbacks =>
          /\ yang_dnode_get_entry(Target(Cur)) = entry[n]
          /\ entry'[n] = entry[n]
          /\ RefersToLive(n, entry'[n], rnh', rdh', offh')
     /\ Cur.cb = "ripd_instance_distance_source_delete" =>
          Freed(n, entry[n])

\* C9: over create, access-list modifies and deletes, and delete of a
\* distance source: the binding exists after create, every access-list
\* handler resolves to the object create made, every access-list string is
\* freed exactly once, and the binding is gone after delete.
C9_DistanceSourceLifecycle ==
  [][ApplyOf(DistanceCallbacks) =>
       (/\ DistanceSourceSteps
        /\ Cur.cb = "ripd_instance_distance_source_delete" =>
             entry'[EntryOf(Cur)] = NULL)]_vars

\* What of C9 the code does: all of it but the unbinding.
DistanceSourceLifecycleButUnbind ==
  [][ApplyOf(DistanceCallbacks) => DistanceSourceSteps]_vars

\* C10 (as the code has it): within a transaction that changes nothing under
\* the subtree, an apply_finish that follows another of the same subtree
\* changes nothing (once is several times), and the redistribute
\* apply_finish of an entry changes nothing at all (none is once).
FinishedAgain(cb) == txn'.nfin[cb] = txn.nfin[cb] + 1
C10_ApplyFinishRepeatable ==
  [][/\ (FinishedAgain("ripd_instance_timers_apply_finish")
         /\ txn.nfin["ripd_instance_timers_apply_finish"] >= 1)
          => (RuntimeModel' = RuntimeModel /\ memerr' = memerr)
     /\ FinishedAgain("ripd_instance_redistribute_apply_finish")
          => (RuntimeModel' = RuntimeModel /\ memerr' = memerr)]_vars

\* apply_finish was delivered twice to the timers of an instance whose
\* update timer had run down, in a transaction without a timers change.
C10_TimersFinishedTwice ==
  /\ txn.phase = "FINISH"
  /\ txn.nfin["ripd_instance_timers_apply_finish"] >= 2
  /\ pre.rip.up
  /\ pre.rip.t_update < pre.rip.update_time

\* C10 as stated: within a transaction that changes nothing under the
\* subtree, an apply_finish changes nothing, however many were delivered
\* before it (none, once and several times are the same).
C10_ApplyFinishChangesNothing ==
  [][\A cb \in FinishCbs :
       FinishedAgain(cb) => RuntimeModel' = RuntimeModel]_vars

\* C11: an enumeration of a state list (neighbors, routes) with get_next from
\* NULL has returned, at each of its steps, no more entries than the list
\* holds and no entry twice; so it reaches the end within as many returned
\* entries as the list has.
C11_EnumerationEnds ==
  [][(reader'.op = "get_next" /\ reader' # reader)
       => (/\ reader'.n <= Cardinality(Entries(reader'.list))
           /\ ~reader'.again)]_vars

\* An enumeration of two live neighbors has reached the end.
C11_EndReached ==
  /\ reader.op = "get_next"
  /\ reader.list = "neighbors"
  /\ reader.out = NULL
  /\ Cardinality(Entries("neighbors")) = NPrefix

\* C19: every call of the read path (get_next, get_keys, lookup_entry and
\* each get_elem, of the neighbors and of the routes) leaves the runtime
\* model with its entry bindings, the configuration tree and the state of
\* the transaction (phase, position, resource handles, last result) as they
\* were.
ReadOps == {"get_next", "get_keys", "lookup_entry"} \cup NeighborLeaves
             \cup RouteLeaves
C19_ReadPathChangesNothing ==
  [][(reader' # reader /\ reader'.op \in ReadOps)
       => (/\ RuntimeModel' = RuntimeModel
           /\ tree' = tree
           /\ txn' = txn
           /\ res' = res
           /\ ret' = ret
           /\ memerr' = memerr)]_vars

\* get_elem was called on a live route while a transaction was applying.
C19_ReadDuringApply ==
  /\ reader.op = "metric"
  /\ reader.arg \in eng.routes
  /\ eng.neighbors # {}
  /\ txn.phase = NB_EV_APPLY

\* C18: the clear-rip-route rpc can be invoked in every state (between any
\* two callbacks of a transaction, and with no instance); it returns NB_OK
\* without a crash, and it leaves the configuration tree, the entry
\* bindings, the resource handles of the running transaction and everything
\* the rest of the transaction depends on (phase, position, last result,
\* descriptors) as they were, so the transaction ends as it would have.
RpcCall == reader' # reader /\ reader'.op = "rpc"
C18_RpcAtAnyTime ==
  /\ []ENABLED rpc_clear_rip_route
  /\ [][RpcCall => (/\ reader'.rc = NB_OK
                    /\ memerr' = memerr
                    /\ tree' = tree
                    /\ entry' = entry
                    /\ res' = res
                    /\ fdtab' = fdtab
                    /\ txn' = txn
                    /\ hist' = hist
                    /\ ret' = ret
                    /\ last' = last)]_vars

\* The rpc has returned with no instance configured, between the PREPARE
\* that acquired a socket and the APPLY that consumes it.
C18_RpcWithPendingHandle ==
  /\ reader.op = "rpc"
  /\ reader.rc = NB_OK
  /\ ~rip.up
  /\ txn.phase = NB_EV_APPLY
  /\ \E i \in DOMAIN res : res[i].stored

\* The callbacks whose APPLY calls the routing engine (C13), and those of
\* them that return what the call returns.
EngineCallers ==
  {"ripd_instance_create",
   "ripd_instance_default_information_originate_modify",
   "ripd_instance_explicit_neighbor_create",
   "ripd_instance_explicit_neighbor_delete",
   "ripd_instance_network_create", "ripd_instance_network_delete",
   "ripd_instance_interface_create", "ripd_instance_interface_delete",
   "ripd_instance_passive_interface_create",
   "ripd_instance_passive_interface_delete",
   "ripd_instance_non_passive_interface_create",
   "ripd_instance_non_passive_interface_delete",
   "ripd_instance_static_route_create", "ripd_instance_static_route_delete"}
Discarding ==
  {"ripd_instance_create",
   "ripd_instance_default_information_originate_modify",
   "ripd_instance_static_route_create", "ripd_instance_static_route_delete"}

\* C13 as stated: whenever the engine call made by the APPLY of one of these
\* callbacks reports a domain error, the callback returns that error as its
\* APPLY result, never success; creating a static route whose prefix is in
\* the route table already returns the error.
C13_EngineErrorReturned ==
  [][(ApplyOf(EngineCallers) /\ EngineReport(Cur) = ENGINE_ERR)
       => ret' = ENGINE_ERR]_vars

\* What the code does: the callbacks written "return engine_call(...)"
\* return the engine's error, the others return NB_OK whatever the call
\* reports.
EngineErrorReturnedOrDropped ==
  [][ApplyOf(EngineCallers) =>
       ret' = IF Cur.cb \in Discarding THEN NB_OK ELSE EngineReport(Cur)]_vars

\* C14: when the APPLY of a change returns the engine's error, the step
\* changes nothing of the runtime model, so what the APPLYs of the changes
\* before it did stays; the coordinator goes on with the next change or with
\* the commit, and from APPLY on it sends no ABORT and ends the transaction
\* committed.
ApplyFailed == txn.phase = NB_EV_APPLY /\ ret' = ENGINE_ERR
C14_NoRollbackAfterApplyError ==
  [][/\ ApplyFailed =>
          /\ RuntimeModel' = RuntimeModel
          /\ txn'.batch = txn.batch
          /\ \/ txn'.phase = NB_EV_APPLY /\ txn'.idx = txn.idx + 1
             \/ txn'.phase = "FINISH" /\ txn.idx = Len(txn.batch)
     /\ txn.phase \in {NB_EV_APPLY, "FINISH"} =>
          /\ txn'.phase # NB_EV_ABORT
          /\ txn'.phase = "ended" => hist'.outcome = "committed"]_vars

\* The APPLY of the second change returned the engine's error, and the
\* static route that the APPLY of the first change added is in the table.
C14_SecondApplyFailed ==
  /\ txn.phase = "FINISH"
  /\ Len(txn.batch) = 2
  /\ last.ev = NB_EV_APPLY
  /\ last.ret = ENGINE_ERR
  /\ txn.batch[1].cb = "ripd_instance_static_route_create"
  /\ txn.batch[1].a \in eng.routes
  /\ txn.batch[1].a \notin pre.eng.routes

\* C15: the handlers that are not implemented (version receive and send of
\* the instance, and every per-interface handler) return NB_OK on every
\* event and change nothing, so a transaction all of whose changes are of
\* such nodes ends committed.
Placeholders ==
  {"ripd_instance_version_receive_modify",
   "ripd_instance_version_send_modify",
   "lib_interface_rip_split_horizon_modify",
   "lib_interface_rip_v2_broadcast_modify",
   "lib_interface_rip_version_receive_modify",
   "lib_interface_rip_version_send_modify",
   "lib_interface_rip_authentication_scheme_mode_modify",
   "lib_interface_rip_authentication_scheme_md5_auth_length_modify",
   "lib_interface_rip_authentication_scheme_md5_auth_length_delete",
   "lib_interface_rip_authentication_password_modify",
   "lib_interface_rip_authentication_password_delete",
   "lib_interface_rip_authentication_key_chain_modify",
   "lib_interface_rip_authentication_key_chain_delete"}
OnlyPlaceholders ==
  /\ txn.batch # <<>>
  /\ \A i \in 1..Len(txn.batch) : txn.batch[i].cb \in Placeholders
C15_PlaceholdersSucceed ==
  [][/\ (txn.phase \in Events /\ Cur.cb \in Placeholders) =>
          /\ ret' = NB_OK
          /\ RuntimeModel' = RuntimeModel
          /\ res' = res
          /\ memerr' = memerr
          /\ tree' = tree
     /\ (OnlyPlaceholders /\ txn'.phase = "ended") =>
          hist'.outcome = "committed"]_vars

\* A transaction of two changes, an instance version leaf and a
\* per-interface leaf, has been through VALIDATE, PREPARE and APPLY.
C15_PlaceholdersApplied ==
  /\ txn.phase = "FINISH"
  /\ Len(txn.batch) = 2
  /\ OnlyPlaceholders
  /\ \E i \in 1..2 : txn.batch[i].cb = "ripd_instance_version_send_modify"
  /\ \E i \in 1..2 :
       txn.batch[i].cb = "lib_interface_rip_authentication_password_delete"
  /\ RuntimeModel = pre

\* C16: the APPLY of a scalar modify handler of the instance (default-metric,
\* distance default, flush, holddown and update interval, allow-ecmp,
\* passive-default) with value v leaves the instance with v in the field of
\* that handler and every other instance field as it was; on no event does
\* such a handler store a resource handle, open or close a descriptor.
ScalarField ==
  [ripd_instance_default_metric_modify |-> "default_metric",
   ripd_instance_distance_default_modify |-> "distance",
   ripd_instance_timers_flush_interval_modify |-> "garbage_time",
   ripd_instance_timers_holddown_interval_modify |-> "timeout_time",
   ripd_instance_timers_update_interval_modify |-> "update_time",
   ripd_instance_allow_ecmp_modify |-> "ecmp",
   ripd_instance_passive_default_modify |-> "passive_default"]
C20_ErrorKindsByPhase ==
  [][(txn.phase \in Events /\ Cur.cb \in TableCallbacks) =>
       /\ ret' = NB_ERR_RESOURCE => txn.phase = NB_EV_PREPARE
       /\ ret' = ENGINE_ERR => txn.phase = NB_EV_APPLY
       /\ txn.phase \in {NB_EV_VALIDATE, NB_EV_ABORT} => ret' = NB_OK
       /\ (txn.phase = NB_EV_APPLY /\ Cur.cb = "ripd_instance_create") =>
            ret' = NB_OK]_vars

\* The PREPARE of "instance create" has failed for want of a socket, in a
\* transaction whose first change prepared.
C20_PrepareFailed ==
  /\ last.cb = "ripd_instance_create"
  /\ last.ev = NB_EV_PREPARE
  /\ last.ret = NB_ERR_RESOURCE
  /\ txn.phase = NB_EV_ABORT

\* C17 as stated: whatever reads an entry's fields while an APPLY is
\* writing them sees, for each field, the value from before the handler or
\* the value from after it: never a route-map name that was freed and not
\* yet replaced, never a metric whose "configured" flag is of one edit and
\* whose value is of another.
C17_ReaderSeesNoTornWrite ==
  reader.op = "observe" =>
    /\ reader.keys[1] # "freed"
    /\ <<reader.keys[2], reader.keys[3]>> \in reader.seen

\* C21: releasing the resource handle is idempotent: a second ABORT of the
\* same instance-create change closes nothing, also when the descriptor
\* number it closed the first time has meanwhile been given to another
\* change.
C21_SecondAbortClosesNothing ==
  [][(AbortedOnce /\ slog'.closed = 2) => (fdtab' = fdtab /\ ret' = NB_OK)]_vars

\* C22: with changes delivered parent before child, every APPLY of a child
\* field of a distance-source or offset-list entry (distance, access-list,
\* metric) and of the entry's own delete resolves to a binding that the
\* entry's create APPLY established, in this or an earlier transaction, and
\* whose object is live: never to a missing binding or a freed object.
EntryUsers == ChildCallbacks \cup DeleteCallbacks
ResolvesToLiveBinding ==
  ApplyOf(EntryUsers) =>
    /\ entry[EntryOf(Cur)] # NULL
    /\ yang_dnode_get_entry(Target(Cur)) = entry[EntryOf(Cur)]
    /\ EntryLive(EntryOf(Cur))
    /\ BadPtr(IF EntryOf(Cur).k = "source" THEN rnh ELSE offh,
              yang_dnode_get_entry(Target(Cur))) = "ok"
C22_ChildApplyFindsLiveBinding ==
  []ResolvesToLiveBinding /\ [][BoundByCreate]_vars

\* The metric of an offset-list is about to be applied in the transaction
\* that created the offset-list.
C22_ChildAppliedWithItsEntry ==
  /\ ApplyOf({"ripd_instance_offset_list_metric_modify"})
  /\ EntryOf(Cur) \notin tree
  /\ txn.idx = 2
  /\ txn.batch[1].cb = "ripd_instance_offset_list_create"
  /\ entry[EntryOf(Cur)] # NULL

\* C23: for every redistribution protocol, whatever route-map modify and
\* route-map delete APPLYs have run, the instance holds a resolved route-map
\* only when it holds the route-map's name; after route-map delete neither
\* is set.
C23_RouteMapOnlyWithName ==
  \A t \in Protos :
    rip.route_map[t].map # NULL => rip.route_map[t].name # NULL

\* C24: whenever the APPLY of a handler that reads or writes the global
\* instance is about to run (allow-ecmp, default-metric, distance default,
\* passive-default, the timers, redistribute route-map and metric), the
\* instance exists: an instance-create APPLY made it and no instance-delete
\* APPLY has destroyed it since; this over all transactions, those that
\* delete the instance and those that fail at PREPARE of instance create
\* included.
InstanceUsers == {"ripd_instance_allow_ecmp_modify",
                  "ripd_instance_default_metric_modify",
                  "ripd_instance_distance_default_modify",
                  "ripd_instance_passive_default_modify",
                  "ripd_instance_timers_flush_interval_modify",
                  "ripd_instance_timers_holddown_interval_modify",
                  "ripd_instance_timers_update_interval_modify",
                  "ripd_instance_redistribute_route_map_modify",
                  "ripd_instance_redistribute_route_map_delete",
                  "ripd_instance_redistribute_metric_modify",
                  "ripd_instance_redistribute_metric_delete"}
InstanceAtApply ==
  /\ ApplyOf(InstanceUsers) => rip.up
  /\ "null_deref" \notin memerr
InstanceMadeAndDestroyedByItsNode ==
  /\ (~rip.up /\ rip'.up) => ApplyOf({"ripd_instance_create"})
  /\ (rip.up /\ ~rip'.up) => ApplyOf({"ripd_instance_delete"})
C24_InstanceExistsAtApply ==
  []InstanceAtApply /\ [][InstanceMadeAndDestroyedByItsNode]_vars

\* A handler that writes the instance is about to be applied in a
\* transaction that goes on to delete the instance.
C24_AppliedBeforeInstanceDelete ==
  /\ ApplyOf(InstanceUsers)
  /\ txn.idx = 1
  /\ Len(txn.batch) = 2
  /\ txn.batch[2].cb = "ripd_instance_delete"
  /\ rip.up

\* C25 (as the code has it): for every interface name and every runtime
\* state, APPLY of non-passive-interface create is APPLY of
\* passive-interface delete, and APPLY of non-passive-interface delete is
\* APPLY of passive-interface create, in result and in effect; and creating
\* then deleting an entry for X, with the overrides untouched in between,
\* leaves the overrides that held before without X for a passive-interface
\* entry and with X for a non-passive-interface entry: as before only when
\* the create changed something.
NonPassiveMirrorsPassive ==
  /\ ApplyOf({"ripd_instance_non_passive_interface_create"}) =>
       ripd_instance_passive_interface_delete(NB_EV_APPLY, Cur, txn.idx)
  /\ ApplyOf({"ripd_instance_passive_interface_delete"}) =>
       ripd_instance_non_passive_interface_create(NB_EV_APPLY, Cur, txn.idx)
  /\ ApplyOf({"ripd_instance_non_passive_interface_delete"}) =>
       ripd_instance_passive_interface_create(NB_EV_APPLY, Cur, txn.idx)
  /\ ApplyOf({"ripd_instance_passive_interface_create"}) =>
       ripd_instance_non_passive_interface_delete(NB_EV_APPLY, Cur, txn.idx)
CreatedThenDeleted == hist.made.back
AfterCreateThenDelete ==
  CreatedThenDeleted =>
    eng.passive = IF hist.made.n.k = "passive-interface"
                  THEN hist.made.passive \ {hist.made.n.a}
                  ELSE hist.made.passive \cup {hist.made.n.a}
C25_MirrorAndRoundTripEffect ==
  [][NonPassiveMirrorsPassive]_vars /\ []AfterCreateThenDelete

\* A non-passive-interface entry was created and then deleted, and the
\* interface has an override that it did not have before.
C25_RoundTripLeftOverride ==
  /\ CreatedThenDeleted
  /\ hist.made.n.k = "non-passive-interface"
  /\ last.cb = "ripd_instance_non_passive_interface_delete"
  /\ last.ev = NB_EV_APPLY
  /\ hist.made.n.a \in eng.passive \ hist.made.passive

\* C25 as stated: the handlers mirror each other, and creating then deleting
\* either kind of entry for X restores the overrides that held before.
C25_MirrorAndRoundTripRestores ==
  [][NonPassiveMirrorsPassive]_vars
    /\ [](CreatedThenDeleted => eng.passive = hist.made.passive)

\* C26: after every APPLY of passive-default modify the set of per-interface
\* passive overrides is empty, whatever it held before; hence, once all the
\* changes of a batch are applied, a passive-interface or
\* non-passive-interface entry whose create was applied before the
\* passive-default modify of the same batch (and no override handler after
\* it) has no effect, although its node, unless the batch goes on to delete
\* it, is in the configuration tree the transaction commits.
PassiveDefaultCleans ==
  ApplyOf({"ripd_instance_passive_default_modify"}) => eng'.passive = {}
OverriddenThenCleaned ==
  {i \in 1..Len(txn.batch) :
     /\ txn.batch[i].cb \in OverrideCreates
     /\ \E j \in (i + 1)..Len(txn.batch) :
          /\ txn.batch[j].cb = "ripd_instance_passive_default_modify"
          /\ \A k \in (j + 1)..Len(txn.batch) :
               txn.batch[k].cb \notin OverrideCreates \cup OverrideDeletes}
EntryWithoutEffect ==
  txn.phase = "FINISH" =>
    \A i \in OverriddenThenCleaned :
      /\ eng.passive = {}
      /\ (\A k \in (i + 1)..Len(txn.batch) :
            ~(/\ OpOf(txn.batch[k]) = "delete"
              /\ Under(Target(txn.batch[i]), Target(txn.batch[k]))))
           => Target(txn.batch[i]) \in ApplyAll(tree, txn.batch)
C26_PassiveDefaultDropsOverrides ==
  [][PassiveDefaultCleans]_vars /\ []EntryWithoutEffect

\* A batch that created a passive-interface entry and then modified
\* passive-default has been applied: the create added an override and it is
\* gone.
C26_CreatedEntryDropped ==
  /\ txn.phase = "FINISH"
  /\ Len(txn.batch) = 2
  /\ txn.batch[1].cb = "ripd_instance_passive_interface_create"
  /\ txn.batch[2].cb = "ripd_instance_passive_default_modify"
  /\ pre.eng.passive = {}
  /\ pre.rip.up
  /\ eng.passive = {}
  /\ Target(txn.batch[1]) \in ApplyAll(tree, txn.batch)

====
